---- MODULE Spec2Model ----
(***************************************************************************)
(* A model of the board state, the make-move contract, the move generator  *)
(* and the FEN reader/writer of the chess engine (src/src/board.rs,        *)
(* src/src/movegen.rs, src/src/bitboard.rs, src/src/zobrist.rs).           *)
(*                                                                         *)
(* Bitboards (u64) are modelled as the set of their set bit indices 0..63. *)
(* A Zobrist key is modelled by its ordinal in the order Zobrist::new      *)
(* draws it from the generator; a 64-bit hash value is the set of ordinals *)
(* of the keys XOR-ed into it, so XOR is symmetric difference.             *)
(* Option<T> is a sequence of length 0 (None) or 1 (Some).                 *)
(* A str is the sequence of its UTF-8 bytes.                               *)
(* A Vec<Move> is the sequence of its moves in the order of the pushes.    *)
(***************************************************************************)
EXTENDS Integers, Sequences, FiniteSets, TLC

VARIABLES
    board,      \* the BoardState in hand: a game's board, UCIEngine.board, or
                \* the root board handed to SearchEngine::search
    budget,     \* operations the environment may still start
    lastMove,   \* the move the last call of make_move_uci made, None if none
    tt,         \* SearchEngine.tt: the TranspositionTable
    engine,     \* SearchEngine: stop, nodes, threads, thread_data
    stack,      \* the call stacks of the threads of the running search
    clock,      \* start_time.elapsed() of the running search, in ms (a u128),
                \* its limit, and the readings the search is followed at
    result,     \* the value the last completed call returned
    uci,        \* UCIEngine.debug, the place of run, the lines of the sender,
                \* on stdin and on stdout
    panicked,   \* a panic or an abort has ended the process
    hist        \* history of the run, kept for stating the claims

vars == <<board, budget, lastMove, tt, engine, stack, clock, result, uci,
          panicked, hist>>

(***************************************************************************)
(* Bounds of the model.                                                    *)
(***************************************************************************)
\* plies explored from a start position (one less where both sides have
\* rooks and kings on open ranks)
MaxPly == 2
\* plies explored from the position of the two bare kings
MaxPlySparse == 4
\* the readings of the clock a search is followed for, in ms, besides the
\* readings that pass the limits of the search
MaxElapsed == 2
\* calls made on a transposition table
MaxTableCalls == 3

(***************************************************************************)
(* board.rs: Piece, Color                                                  *)
(***************************************************************************)
Empty == 0
Pawn == 1
Knight == 2
Bishop == 3
Rook == 4
Queen == 5
King == 6

White == 0
Black == 1

flip(c) == 1 - c

None == <<>>
Some(x) == <<x>>

Squares == 0..63

(***************************************************************************)
(* Integers of 64 bits and f64.  A natural number that may pass 2^31 is    *)
(* the sequence of its digits in base 2^15, least significant first, with  *)
(* no leading zero digit; <<>> is 0.  u64 and usize values are kept in     *)
(* this form.  An f64 is [s, m, e] with the value s * m * 2^e, where s is  *)
(* 1 or -1 and m is 0 or has exactly 53 bits; every operation rounds to    *)
(* the nearest such value, ties to the even m, as IEEE 754 does (the       *)
(* values of the engine stay clear of the subnormal and the infinite).     *)
(***************************************************************************)
Pow2(n) == 2 ^ n

LIMB == Pow2(15)

\* the digits without leading zeros
BnNorm(a) ==
    LET nz == {i \in 1..Len(a) : a[i] # 0}
    IN  IF nz = {} THEN <<>>
        ELSE SubSeq(a, 1, CHOOSE i \in nz : \A j \in nz : j <= i)

\* n in 0..2^31-1
BnFromInt(n) == BnNorm(<<n % LIMB, (n \div LIMB) % LIMB, n \div (LIMB * LIMB)>>)

\* the number is below 2^31
BnFits(a) == Len(a) <= 2 \/ (Len(a) = 3 /\ a[3] = 1)

BnDigit(a, i) == IF i <= Len(a) THEN a[i] ELSE 0

\* the value of a number below 2^31
BnToInt(a) == BnDigit(a, 1) + BnDigit(a, 2) * LIMB + BnDigit(a, 3) * LIMB * LIMB

\* -1, 0, 1 as a is below, equal to, above b
BnCmp(a, b) ==
    IF Len(a) # Len(b) THEN (IF Len(a) < Len(b) THEN -1 ELSE 1)
    ELSE LET d == {i \in 1..Len(a) : a[i] # b[i]}
         IN  IF d = {} THEN 0
             ELSE LET i == CHOOSE k \in d : \A j \in d : j <= k
                  IN  IF a[i] < b[i] THEN -1 ELSE 1

RECURSIVE BnAddFrom(_, _, _, _)
BnAddFrom(a, b, i, carry) ==
    IF i > Len(a) /\ i > Len(b) THEN (IF carry = 0 THEN <<>> ELSE <<carry>>)
    ELSE LET s == BnDigit(a, i) + BnDigit(b, i) + carry
         IN  <<s % LIMB>> \o BnAddFrom(a, b, i + 1, s \div LIMB)

BnAdd(a, b) == BnAddFrom(a, b, 1, 0)

RECURSIVE BnSubFrom(_, _, _, _)
BnSubFrom(a, b, i, borrow) ==
    IF i > Len(a) THEN <<>>
    ELSE LET d == a[i] - BnDigit(b, i) - borrow
         IN  <<d % LIMB>> \o BnSubFrom(a, b, i + 1, IF d < 0 THEN 1 ELSE 0)

\* a - b where a >= b
BnSub(a, b) == BnNorm(BnSubFrom(a, b, 1, 0))

RECURSIVE BnMulSmallFrom(_, _, _, _)
BnMulSmallFrom(a, k, i, carry) ==
    IF i > Len(a) THEN (IF carry = 0 THEN <<>> ELSE <<carry>>)
    ELSE LET p == a[i] * k + carry
         IN  <<p % LIMB>> \o BnMulSmallFrom(a, k, i + 1, p \div LIMB)

\* a * k for k in 0..2^15
BnMulSmall(a, k) == BnNorm(BnMulSmallFrom(a, k, 1, 0))

\* a * 2^(15 n)
BnShiftLimbs(a, n) == IF a = <<>> THEN <<>> ELSE [i \in 1..n |-> 0] \o a

RECURSIVE BnMulFrom(_, _, _)
BnMulFrom(a, b, j) ==
    IF j > Len(b) THEN <<>>
    ELSE BnAdd(BnShiftLimbs(BnMulSmall(a, b[j]), j - 1), BnMulFrom(a, b, j + 1))

BnMul(a, b) == BnMulFrom(a, b, 1)

RECURSIVE BnDivSmallFrom(_, _, _, _)
BnDivSmallFrom(a, k, i, rem) ==
    IF i = 0 THEN <<>>
    ELSE BnDivSmallFrom(a, k, i - 1, (rem * LIMB + a[i]) % k)
            \o <<(rem * LIMB + a[i]) \div k>>

\* a / k rounded down, for k in 1..2^15
BnDivSmall(a, k) == BnNorm(BnDivSmallFrom(a, k, Len(a), 0))

\* a << s
BnShl(a, s) == BnMulSmall(BnShiftLimbs(a, s \div 15), Pow2(s % 15))

\* a >> s
BnShr(a, s) ==
    IF s \div 15 >= Len(a) THEN <<>>
    ELSE BnDivSmall(SubSeq(a, (s \div 15) + 1, Len(a)), Pow2(s % 15))

\* the number of bits of a
BnBitLen(a) ==
    IF a = <<>> THEN 0
    ELSE (Len(a) - 1) * 15 + Cardinality({k \in 0..14 : Pow2(k) <= a[Len(a)]})

BnIsOdd(a) == a # <<>> /\ a[1] % 2 = 1

\* the largest q with n * q <= r, where r < n * 2^15 and the top digit of n
\* is 2^14 or more: lo, the quotient of the digits of r from the top digit
\* of n on by one more than that digit, is at most 2 below it
BnQuotFrom(r, n, lo) ==
    lo + Cardinality({d \in 1..3 : BnCmp(BnMulSmall(n, lo + d), r) <= 0})

BnQuotDigit(r, n) ==
    BnQuotFrom(r, n, (BnDigit(r, Len(n) + 1) * LIMB + BnDigit(r, Len(n)))
                        \div (n[Len(n)] + 1))

\* long division, digit i of a down to digit 1; rem is what the digits
\* above have left and q their quotient
RECURSIVE BnDivModFrom(_, _, _, _, _)
\* digit d of the quotient found: cur is what is divided at digit i
BnDivModDigit(a, n, i, q, cur, d) ==
    IF d = 0 THEN BnDivModFrom(a, n, i - 1, cur, <<0>> \o q)
    ELSE BnDivModFrom(a, n, i - 1, BnSub(cur, BnMulSmall(n, d)), <<d>> \o q)

BnDivModFrom(a, n, i, rem, q) ==
    IF i = 0 THEN [q |-> BnNorm(q), r |-> rem]
    ELSE LET cur == BnAdd(BnShiftLimbs(rem, 1), BnFromInt(a[i]))
         IN  BnDivModDigit(a, n, i, q, cur, BnQuotDigit(cur, n))

\* dm is the quotient and the remainder of a * 2^sh by n * 2^sh
BnDivModUnshift(dm, sh) == [q |-> dm.q, r |-> BnShr(dm.r, sh)]

\* a and n are shifted by sh bits, which brings the top digit of n to 2^14
\* or more
BnDivModShifted(a, n, sh) ==
    BnDivModUnshift(BnDivModFrom(BnShl(a, sh), BnShl(n, sh), Len(BnShl(a, sh)), <<>>, <<>>),
                    sh)

\* quotient and remainder of a by n, n not 0
BnDivMod(a, n) == BnDivModShifted(a, n, Len(n) * 15 - BnBitLen(n))

\* u64::MAX
U64_MAX == BnSub(BnShl(<<1>>, 64), <<1>>)

\* i32::MAX
I32_MAX == (Pow2(30) - 1) + Pow2(30)

\* the low 64 bits of a and whether a has more: the value a u64 or usize
\* holds after arithmetic that wraps
wrap_u64(a) == BnSub(a, BnShl(BnShr(a, 64), 64))

leaves_u64(a) == BnBitLen(a) > 64

BnMin(a, b) == IF BnCmp(a, b) <= 0 THEN a ELSE b

BnMax(a, b) == IF BnCmp(a, b) >= 0 THEN a ELSE b

\* the number, 2^31 - 1 in place of a larger one: for a value that is
\* clamped or compared below that
BnSat(a) == IF BnFits(a) THEN BnToInt(a) ELSE I32_MAX

\* the magnitude of an i32
BnFromAbs(n) ==
    IF n >= 0 THEN BnFromInt(n) ELSE BnAdd(BnFromInt(-(n + 1)), <<1>>)

\* the f64 nearest to s * M * 2^E; sticky says that the exact value lies
\* strictly above M * 2^E and below (M + 1) * 2^E
\* q1 is the rounded mantissa of 53 bits, or 2^53 after a carry
F64Carried(s, q1, E) ==
    IF BnBitLen(q1) = 54 THEN [s |-> s, m |-> BnShr(q1, 1), e |-> E + 1]
    ELSE [s |-> s, m |-> q1, e |-> E]

\* q is the high 53 bits of the number; c tells whether the bits cut off
\* are below (-1), equal to (0) or above (1) half a unit of q
F64Nearest(s, q, c, E, sticky) ==
    F64Carried(s, IF c > 0 \/ (c = 0 /\ (sticky \/ BnIsOdd(q))) THEN BnAdd(q, <<1>>) ELSE q, E)

\* M has 53 + sh bits, sh > 0, and q is M >> sh
F64Cut(s, M, E, sticky, sh, q) ==
    F64Nearest(s, q, BnCmp(BnSub(M, BnShl(q, sh)), BnShl(<<1>>, sh - 1)), E + sh, sticky)

\* len is the number of bits of M
F64RoundBits(s, M, E, sticky, len) ==
    IF M = <<>> THEN [s |-> s, m |-> <<>>, e |-> 0]
    ELSE IF len <= 53 THEN [s |-> s, m |-> BnShl(M, 53 - len), e |-> E - (53 - len)]
    ELSE F64Cut(s, M, E, sticky, len - 53, BnShr(M, len - 53))

F64Round(s, M, E, sticky) == F64RoundBits(s, M, E, sticky, BnBitLen(M))

\* `x as f64` of a u64
F64FromNat(a) == F64Round(1, a, 0, FALSE)

\* `x as f64` of an i32
F64FromInt(n) == F64Round(IF n < 0 THEN -1 ELSE 1, BnFromAbs(n), 0, FALSE)

\* x * y
F64Mul(x, y) == F64Round(x.s * y.s, BnMul(x.m, y.m), x.e + y.e, FALSE)

\* x + y
\* X * 2^e and Y * 2^e are the magnitudes of x and y
F64AddAligned(x, y, e, X, Y) ==
    IF x.s = y.s THEN F64Round(x.s, BnAdd(X, Y), e, FALSE)
    ELSE IF BnCmp(X, Y) >= 0 THEN F64Round(x.s, BnSub(X, Y), e, FALSE)
    ELSE F64Round(y.s, BnSub(Y, X), e, FALSE)

\* e is the smaller of the exponents
F64AddAt(x, y, e) == F64AddAligned(x, y, e, BnShl(x.m, x.e - e), BnShl(y.m, y.e - e))

F64Add(x, y) ==
    IF x.m = <<>> THEN y
    ELSE IF y.m = <<>> THEN x
    ELSE F64AddAt(x, y, IF x.e < y.e THEN x.e ELSE y.e)

\* the f64 nearest to s * num / den, for naturals num and den, den not 0:
\* the quotient of two f64 that hold integers, and the value of a decimal
\* literal
F64Quotient(s, k, dm) == F64Round(s, dm.q, -k, dm.r # <<>>)

\* num * 2^k is divided, k large enough for 55 bits of quotient
F64DivScaled(s, num, den, k) == F64Quotient(s, k, BnDivMod(BnShl(num, k), den))

F64Div(s, num, den) == F64DivScaled(s, num, den, 55 + BnBitLen(den))

\* `x as u64`: toward zero, 0 for a negative number, u64::MAX from 2^64 on
F64ToU64(x) ==
    IF x.m = <<>> \/ x.s < 0 THEN <<>>
    ELSE IF x.e > 11 THEN U64_MAX
    ELSE IF x.e >= 0
    THEN (IF BnCmp(BnShl(x.m, x.e), U64_MAX) > 0 THEN U64_MAX ELSE BnShl(x.m, x.e))
    ELSE BnShr(x.m, -x.e)

\* the integer that an f64 without a fraction holds
F64Integer(x) == IF x.e >= 0 THEN BnShl(x.m, x.e) ELSE BnShr(x.m, -x.e)

\* x > y for x and y that are not negative; e is the smaller exponent
F64GreaterAt(x, y, e) == BnCmp(BnShl(x.m, x.e - e), BnShl(y.m, y.e - e)) > 0

F64Greater(x, y) == F64GreaterAt(x, y, IF x.e < y.e THEN x.e ELSE y.e)

(***************************************************************************)
(* std::time::Duration, as search.rs uses it: the whole seconds, a u64,   *)
(* and the nanoseconds below a second, a u32.                              *)
(***************************************************************************)
\* Duration::from_millis
from_millis(ms) ==
    [secs |-> BnDivSmall(ms, 1000),
     nanos |-> BnToInt(BnSub(ms, BnMulSmall(BnDivSmall(ms, 1000), 1000))) * 1000000]

\* Duration::as_millis, a u128
as_millis(d) == BnAdd(BnMulSmall(d.secs, 1000), BnFromInt(d.nanos \div 1000000))

\* d > e of two Durations
DurationGreater(d, e) ==
    BnCmp(d.secs, e.secs) > 0 \/ (d.secs = e.secs /\ d.nanos > e.nanos)

\* Duration::as_secs_f64:
\* `(secs as f64) + (nanos as f64) / (NANOS_PER_SEC as f64)`
as_secs_f64(d) ==
    F64Add(F64FromNat(d.secs), F64Div(1, BnFromInt(d.nanos), BnFromInt(1000000000)))

\* q is a >> sh; the result is a / 2^sh rounded to the nearest integer, a
\* tie to the even one
BnShrNearestOf(a, sh, q) ==
    IF BnCmp(BnSub(a, BnShl(q, sh)), BnShl(<<1>>, sh - 1)) > 0
         \/ (BnSub(a, BnShl(q, sh)) = BnShl(<<1>>, sh - 1) /\ BnIsOdd(q))
    THEN BnAdd(q, <<1>>)
    ELSE q

BnShrNearest(a, sh) == BnShrNearestOf(a, sh, BnShr(a, sh))

\* the seconds and the rounded nanoseconds put together: a billion
\* nanoseconds are one more second
DurationCarried(secs, nanos) ==
    IF nanos = 1000000000 THEN [secs |-> BnAdd(secs, <<1>>), nanos |-> 0]
    ELSE [secs |-> secs, nanos |-> nanos]

\* secs is the whole part of x = m * 2^e, e < 0: the part below a second
\* is turned into nanoseconds and rounded to the nearest, a tie to the even
\* one
DurationOfParts(x, secs) ==
    DurationCarried(secs,
        BnToInt(BnShrNearest(BnMul(BnSub(x.m, BnShl(secs, -x.e)), BnFromInt(1000000000)),
                             -x.e)))

\* Duration::from_secs_f64 of a number of seconds from 0 to below 2^64 (the
\* products of mul_f64 below stay in this range, outside of which it
\* panics)
from_secs_f64(x) ==
    IF x.e >= 0 THEN [secs |-> BnShl(x.m, x.e), nanos |-> 0]
    ELSE DurationOfParts(x, BnShr(x.m, -x.e))

\* Duration::mul_f64: `Duration::from_secs_f64(rhs * self.as_secs_f64())`
mul_f64(d, rhs) == from_secs_f64(F64Mul(rhs, as_secs_f64(d)))

(***************************************************************************)
(* movegen.rs: move flags and Move                                         *)
(***************************************************************************)
QUIET_MOVE == 0
DOUBLE_PAWN_PUSH == 1
KING_CASTLE == 2
QUEEN_CASTLE == 3
CAPTURE == 4
EP_CAPTURE == 5
KNIGHT_PROMOTION == 8
BISHOP_PROMOTION == 9
ROOK_PROMOTION == 10
QUEEN_PROMOTION == 11
KNIGHT_PROMO_CAPTURE == 12
BISHOP_PROMO_CAPTURE == 13
ROOK_PROMO_CAPTURE == 14
QUEEN_PROMO_CAPTURE == 15

Move(from, to, flags) == [from |-> from, to |-> to, flags |-> flags]

is_capture(mv) ==
    mv.flags = CAPTURE \/ mv.flags = EP_CAPTURE \/ mv.flags >= KNIGHT_PROMO_CAPTURE

is_promotion(mv) == mv.flags >= KNIGHT_PROMOTION

promotion_piece(mv) ==
    CASE mv.flags \in {KNIGHT_PROMOTION, KNIGHT_PROMO_CAPTURE} -> Some(Knight)
      [] mv.flags \in {BISHOP_PROMOTION, BISHOP_PROMO_CAPTURE} -> Some(Bishop)
      [] mv.flags \in {ROOK_PROMOTION, ROOK_PROMO_CAPTURE} -> Some(Rook)
      [] mv.flags \in {QUEEN_PROMOTION, QUEEN_PROMO_CAPTURE} -> Some(Queen)
      [] OTHER -> None

(***************************************************************************)
(* bitboard.rs: bit operations                                             *)
(***************************************************************************)
set_bit(bb, sq) == bb \cup {sq}

clear_bit(bb, sq) == bb \ {sq}

get_bit(bb, sq) == sq \in bb

count_bits(bb) == Cardinality(bb)

lsb(bb) ==
    IF bb = {} THEN None
    ELSE Some(CHOOSE s \in bb : \A t \in bb : s <= t)

(***************************************************************************)
(* bitboard.rs: attack tables                                              *)
(***************************************************************************)
RankOf(sq) == sq \div 8

FileOf(sq) == sq % 8

OnBoard(r, f) == r >= 0 /\ r < 8 /\ f >= 0 /\ f < 8

pawn_attacks ==
    [c \in 0..1 |-> [sq \in Squares |->
        IF c = 0
        THEN (IF RankOf(sq) < 7 /\ FileOf(sq) > 0 THEN {sq + 7} ELSE {})
             \cup (IF RankOf(sq) < 7 /\ FileOf(sq) < 7 THEN {sq + 9} ELSE {})
        ELSE (IF RankOf(sq) > 0 /\ FileOf(sq) > 0 THEN {sq - 9} ELSE {})
             \cup (IF RankOf(sq) > 0 /\ FileOf(sq) < 7 THEN {sq - 7} ELSE {})]]

KnightDeltas ==
    {<<-2, -1>>, <<-2, 1>>, <<-1, -2>>, <<-1, 2>>,
     <<1, -2>>, <<1, 2>>, <<2, -1>>, <<2, 1>>}

KingDeltas ==
    {<<-1, -1>>, <<-1, 0>>, <<-1, 1>>, <<0, -1>>,
     <<0, 1>>, <<1, -1>>, <<1, 0>>, <<1, 1>>}

DeltaTargets(sq, deltas) ==
    {(RankOf(sq) + d[1]) * 8 + (FileOf(sq) + d[2]) :
        d \in {e \in deltas : OnBoard(RankOf(sq) + e[1], FileOf(sq) + e[2])}}

knight_attacks == [sq \in Squares |-> DeltaTargets(sq, KnightDeltas)]

king_attacks == [sq \in Squares |-> DeltaTargets(sq, KingDeltas)]

BishopDirections == {<<-1, -1>>, <<-1, 1>>, <<1, -1>>, <<1, 1>>}

RookDirections == {<<-1, 0>>, <<1, 0>>, <<0, -1>>, <<0, 1>>}

\* the inner while loop of get_bishop_attacks / get_rook_attacks: walk from
\* (r, f) in direction (dr, df), adding each square, stopping after an
\* occupied one
RECURSIVE SlideRay(_, _, _, _, _)
SlideRay(r, f, dr, df, occ) ==
    IF ~OnBoard(r, f) THEN {}
    ELSE IF get_bit(occ, r * 8 + f) THEN {r * 8 + f}
    ELSE {r * 8 + f} \cup SlideRay(r + dr, f + df, dr, df, occ)

get_bishop_attacks(sq, occ) ==
    UNION {SlideRay(RankOf(sq) + d[1], FileOf(sq) + d[2], d[1], d[2], occ) :
              d \in BishopDirections}

get_rook_attacks(sq, occ) ==
    UNION {SlideRay(RankOf(sq) + d[1], FileOf(sq) + d[2], d[1], d[2], occ) :
              d \in RookDirections}

get_queen_attacks(sq, occ) ==
    get_rook_attacks(sq, occ) \cup get_bishop_attacks(sq, occ)

(***************************************************************************)
(* zobrist.rs: the key schedule.  Keys are named by the ordinal of the     *)
(* rng.gen() call that creates them.                                       *)
(***************************************************************************)
piece_keys(color, piece, square) == color * 448 + piece * 64 + square

castle_keys(rights) == 896 + rights

ep_keys(file) == 912 + file

side_key == 920

\* h ^ key on 64-bit words, for a hash h that is the XOR of the keys in h
Xor(h, key) == IF key \in h THEN h \ {key} ELSE h \cup {key}

(***************************************************************************)
(* board.rs: queries on a BoardState                                       *)
(***************************************************************************)
piece_at(b, sq) ==
    IF ~get_bit(b.all_pieces, sq) THEN None
    ELSE LET color == IF get_bit(b.color_bb[0], sq) THEN White ELSE Black
             kinds == {k \in 1..6 : get_bit(b.pieces[color][k], sq)}
         IN  IF kinds = {} THEN None
             ELSE Some(<<CHOOSE k \in kinds : \A j \in kinds : k <= j, color>>)

get_king_square(b, color) == lsb(b.pieces[color][King])

is_square_attacked(b, sq, by_color) ==
    \/ pawn_attacks[1 - by_color][sq] \cap b.pieces[by_color][Pawn] # {}
    \/ knight_attacks[sq] \cap b.pieces[by_color][Knight] # {}
    \/ king_attacks[sq] \cap b.pieces[by_color][King] # {}
    \/ get_bishop_attacks(sq, b.all_pieces)
          \cap (b.pieces[by_color][Bishop] \cup b.pieces[by_color][Queen]) # {}
    \/ get_rook_attacks(sq, b.all_pieces)
          \cap (b.pieces[by_color][Rook] \cup b.pieces[by_color][Queen]) # {}

is_in_check(b, color) ==
    LET king_sq == get_king_square(b, color)
    IN  IF king_sq # None THEN is_square_attacked(b, king_sq[1], flip(color))
        ELSE FALSE

CountEq(seq, h) == Cardinality({i \in 1..Len(seq) : seq[i] = h})

is_repetition(b) == CountEq(b.position_history, b.hash) >= 2

\* lines 312-316: the XOR over the 64 squares of the key of the piece on each.
\* The keys of different squares are different keys, so the XOR of them is
\* the set of them.
HashSquares(b) ==
    {piece_keys(piece_at(b, sq)[1][2], piece_at(b, sq)[1][1], sq) :
        sq \in {s \in Squares : piece_at(b, s) # None}}

compute_hash(b) ==
    LET h1 == HashSquares(b)
        h2 == Xor(h1, castle_keys(b.castling_rights))
        h3 == IF b.ep_square # None THEN Xor(h2, ep_keys(FileOf(b.ep_square[1])))
              ELSE h2
    IN  IF b.side_to_move = Black THEN Xor(h3, side_key) ELSE h3

(***************************************************************************)
(* u8 / u16 arithmetic used by make_move                                   *)
(***************************************************************************)
\* rights & mask != 0, for a one-bit mask
HasBit(rights, mask) == (rights \div mask) % 2 = 1

\* rights & !mask, for a one-bit mask
ClearMask(rights, mask) == IF HasBit(rights, mask) THEN rights - mask ELSE rights

U16 == 65536

(***************************************************************************)
(* board.rs: make_move, section by section                                 *)
(***************************************************************************)
\* MoveClock that resets on pawn moves only
MoveClock_PawnOnly(b, mv, piece) ==
    IF piece = Pawn
    THEN [b EXCEPT !.halfmove_clock = 0, !.position_history = <<>>]
    ELSE [b EXCEPT !.halfmove_clock = (b.halfmove_clock + 1) % U16]

\* lines 338-344: halfmove clock and history reset
MoveClock(b, mv, piece) ==
    IF piece = Pawn \/ is_capture(mv)
    THEN [b EXCEPT !.halfmove_clock = 0, !.position_history = <<>>]
    ELSE [b EXCEPT !.halfmove_clock = (b.halfmove_clock + 1) % U16]

\* lines 346-350: clear the old en-passant square
MoveClearEp(b) ==
    [b EXCEPT !.hash = IF b.ep_square # None
                       THEN Xor(b.hash, ep_keys(FileOf(b.ep_square[1])))
                       ELSE b.hash,
              !.ep_square = None]

\* remove the piece (kind, color) standing on sq from the bitboards and hash
RemovePiece(b, color, kind, sq) ==
    [b EXCEPT !.pieces[color][kind] = clear_bit(b.pieces[color][kind], sq),
              !.color_bb[color] = clear_bit(b.color_bb[color], sq),
              !.all_pieces = clear_bit(b.all_pieces, sq),
              !.hash = Xor(b.hash, piece_keys(color, kind, sq))]

\* put a piece (kind, color) on sq in the bitboards and hash
PlacePiece(b, color, kind, sq) ==
    [b EXCEPT !.pieces[color][kind] = set_bit(b.pieces[color][kind], sq),
              !.color_bb[color] = set_bit(b.color_bb[color], sq),
              !.all_pieces = set_bit(b.all_pieces, sq),
              !.hash = Xor(b.hash, piece_keys(color, kind, sq))]

\* MoveCapture with the en-passant pawn taken off the mover's bitboards
MoveCapture_EpOwnColor(b, mv, color) ==
    IF mv.flags = CAPTURE \/ (is_promotion(mv) /\ is_capture(mv))
    THEN LET cap == piece_at(b, mv.to)
         IN  IF cap # None THEN RemovePiece(b, cap[1][2], cap[1][1], mv.to)
             ELSE b
    ELSE IF mv.flags = EP_CAPTURE
    THEN LET ep_captured_sq == IF color = White THEN mv.to - 8 ELSE mv.to + 8
         IN  RemovePiece(b, color, Pawn, ep_captured_sq)
    ELSE b

\* lines 352-370: captures
MoveCapture(b, mv, color) ==
    IF mv.flags = CAPTURE \/ (is_promotion(mv) /\ is_capture(mv))
    THEN LET cap == piece_at(b, mv.to)
         IN  IF cap # None THEN RemovePiece(b, cap[1][2], cap[1][1], mv.to)
             ELSE b
    ELSE IF mv.flags = EP_CAPTURE
    THEN LET ep_captured_sq == IF color = White THEN mv.to - 8 ELSE mv.to + 8
         IN  RemovePiece(b, flip(color), Pawn, ep_captured_sq)
    ELSE b

\* lines 372-388: move the piece, promoting it if the move says so
MovePiece(b, mv, color, piece) ==
    LET final_piece == IF promotion_piece(mv) # None THEN promotion_piece(mv)[1]
                       ELSE piece
    IN  PlacePiece(RemovePiece(b, color, piece, mv.from), color, final_piece, mv.to)

\* lines 394-402 and 406-414: relocate the castling rook.  The bitboards are
\* cleared and set whatever stands on rook_from; the hash is XOR-ed with
\* both rook keys.
RelocateRook(b, color, rook_from, rook_to) ==
    [b EXCEPT !.pieces[color][Rook] =
                  set_bit(clear_bit(b.pieces[color][Rook], rook_from), rook_to),
              !.color_bb[color] =
                  set_bit(clear_bit(b.color_bb[color], rook_from), rook_to),
              !.all_pieces = set_bit(clear_bit(b.all_pieces, rook_from), rook_to),
              !.hash = Xor(Xor(b.hash, piece_keys(color, Rook, rook_from)),
                           piece_keys(color, Rook, rook_to))]

\* lines 390-415: castling
MoveCastle(b, mv, color) ==
    IF mv.flags = KING_CASTLE
    THEN IF color = White THEN RelocateRook(b, color, 7, 5)
         ELSE RelocateRook(b, color, 63, 61)
    ELSE IF mv.flags = QUEEN_CASTLE
    THEN IF color = White THEN RelocateRook(b, color, 0, 3)
         ELSE RelocateRook(b, color, 56, 59)
    ELSE b

\* MoveDoublePush that records the square the pawn lands on
MoveDoublePush_AtTarget(b, mv, color) ==
    IF mv.flags = DOUBLE_PAWN_PUSH
    THEN LET ep_sq == mv.to
         IN  [b EXCEPT !.ep_square = Some(ep_sq),
                       !.hash = Xor(b.hash, ep_keys(FileOf(ep_sq)))]
    ELSE b

\* lines 417-423: double pawn push sets the en-passant square
MoveDoublePush(b, mv, color) ==
    IF mv.flags = DOUBLE_PAWN_PUSH
    THEN LET ep_sq == IF color = White THEN mv.to - 8 ELSE mv.to + 8
         IN  [b EXCEPT !.ep_square = Some(ep_sq),
                       !.hash = Xor(b.hash, ep_keys(FileOf(ep_sq)))]
    ELSE b

\* NewCastlingRights that looks at the origin square only
NewCastlingRights_FromOnly(rights, mv, color, piece) ==
    LET r1 == IF piece = King
              THEN IF color = White THEN ClearMask(ClearMask(rights, 1), 2)
                   ELSE ClearMask(ClearMask(rights, 4), 8)
              ELSE rights
        corner == piece = Rook \/ is_capture(mv)
        r2 == IF corner /\ mv.from = 0 THEN ClearMask(r1, 2) ELSE r1
        r3 == IF corner /\ mv.from = 7 THEN ClearMask(r2, 1) ELSE r2
        r4 == IF corner /\ mv.from = 56 THEN ClearMask(r3, 8) ELSE r3
    IN  IF corner /\ mv.from = 63 THEN ClearMask(r4, 4) ELSE r4

\* lines 428-441: the new castling rights
NewCastlingRights(rights, mv, color, piece) ==
    LET r1 == IF piece = King
              THEN IF color = White THEN ClearMask(ClearMask(rights, 1), 2)
                   ELSE ClearMask(ClearMask(rights, 4), 8)
              ELSE rights
        corner == piece = Rook \/ is_capture(mv)
        r2 == IF corner /\ (mv.from = 0 \/ mv.to = 0) THEN ClearMask(r1, 2) ELSE r1
        r3 == IF corner /\ (mv.from = 7 \/ mv.to = 7) THEN ClearMask(r2, 1) ELSE r2
        r4 == IF corner /\ (mv.from = 56 \/ mv.to = 56) THEN ClearMask(r3, 8) ELSE r3
    IN  IF corner /\ (mv.from = 63 \/ mv.to = 63) THEN ClearMask(r4, 4) ELSE r4

\* lines 425-446: update castling rights and their key
MoveCastlingRights(b, mv, color, piece) ==
    LET old_castling == b.castling_rights
        new_castling == NewCastlingRights(old_castling, mv, color, piece)
    IN  [b EXCEPT !.castling_rights = new_castling,
                  !.hash = IF old_castling # new_castling
                           THEN Xor(Xor(b.hash, castle_keys(old_castling)),
                                    castle_keys(new_castling))
                           ELSE b.hash]

\* lines 449-459: switch side, fullmove number, history push
MoveFinish(b) ==
    LET side == flip(b.side_to_move)
        hash == Xor(b.hash, side_key)
    IN  [b EXCEPT !.side_to_move = side,
                  !.hash = hash,
                  !.fullmove_number = IF side = White
                                      THEN (b.fullmove_number + 1) % U16
                                      ELSE b.fullmove_number,
                  !.position_history = Append(b.position_history, hash)]

make_move(b, mv) ==
    LET color == b.side_to_move
        pc == piece_at(b, mv.from)
    IN  IF pc # None
        THEN LET piece == pc[1][1]
                 b1 == MoveClock(b, mv, piece)
                 b2 == MoveClearEp(b1)
                 b3 == MoveCapture(b2, mv, color)
                 b4 == MovePiece(b3, mv, color, piece)
                 b5 == MoveCastle(b4, mv, color)
                 b6 == MoveDoublePush(b5, mv, color)
                 b7 == MoveCastlingRights(b6, mv, color, piece)
             IN  MoveFinish(b7)
        ELSE MoveFinish(b)

\* lines 343 and 455: the additions to halfmove_clock and fullmove_number
\* leave u16; a build with overflow checks panics there
make_move_overflows(b, mv) ==
    \/ /\ piece_at(b, mv.from) # None
       /\ piece_at(b, mv.from)[1][1] # Pawn
       /\ ~is_capture(mv)
       /\ b.halfmove_clock = U16 - 1
    \/ /\ b.side_to_move = Black
       /\ b.fullmove_number = U16 - 1

(***************************************************************************)
(* movegen.rs: MoveGenerator                                               *)
(***************************************************************************)
\* a Vec<Move> is the sequence of its elements in the order of the pushes,
\* a move pushed twice standing twice in it
Elems(moves) == {moves[i] : i \in 1..Len(moves)}

\* the squares of the board in ascending order
SquareSeq == [i \in 1..64 |-> i - 1]

\* the squares of a bitboard in the order the pop_lsb loops take them
BitSeq(bb) == SelectSeq(SquareSeq, LAMBDA sq : sq \in bb)

\* the pushes of the bodies of a loop, one after another
RECURSIVE Flatten(_)
Flatten(seqs) ==
    IF seqs = <<>> THEN <<>> ELSE Head(seqs) \o Flatten(Tail(seqs))

\* the four promotion moves pushed for one (from, to)
PromoMoves(from_sq, to_sq, capture) ==
    IF capture
    THEN <<Move(from_sq, to_sq, QUEEN_PROMO_CAPTURE), Move(from_sq, to_sq, ROOK_PROMO_CAPTURE),
           Move(from_sq, to_sq, BISHOP_PROMO_CAPTURE),
           Move(from_sq, to_sq, KNIGHT_PROMO_CAPTURE)>>
    ELSE <<Move(from_sq, to_sq, QUEEN_PROMOTION), Move(from_sq, to_sq, ROOK_PROMOTION),
           Move(from_sq, to_sq, BISHOP_PROMOTION), Move(from_sq, to_sq, KNIGHT_PROMOTION)>>

Abs(x) == IF x < 0 THEN -x ELSE x

\* lines 127-147 with the double push left out
PawnPushes_SingleOnly(b, color, from_sq) ==
    LET direction == IF color = White THEN 8 ELSE -8
        promo_rank == IF color = White THEN 7 ELSE 0
        to_sq == from_sq + direction
    IN  IF to_sq >= 0 /\ to_sq < 64 /\ ~get_bit(b.all_pieces, to_sq)
        THEN IF RankOf(to_sq) = promo_rank
             THEN PromoMoves(from_sq, to_sq, FALSE)
             ELSE <<Move(from_sq, to_sq, QUIET_MOVE)>>
        ELSE <<>>

\* lines 127-147: pushes of the pawn on from_sq
PawnPushes(b, color, from_sq) ==
    LET direction == IF color = White THEN 8 ELSE -8
        start_rank == IF color = White THEN 1 ELSE 6
        promo_rank == IF color = White THEN 7 ELSE 0
        to_sq == from_sq + direction
        to_sq2 == from_sq + 2 * direction
    IN  IF to_sq >= 0 /\ to_sq < 64 /\ ~get_bit(b.all_pieces, to_sq)
        THEN IF RankOf(to_sq) = promo_rank
             THEN PromoMoves(from_sq, to_sq, FALSE)
             ELSE <<Move(from_sq, to_sq, QUIET_MOVE)>>
                  \o (IF RankOf(from_sq) = start_rank /\ ~get_bit(b.all_pieces, to_sq2)
                      THEN <<Move(from_sq, to_sq2, DOUBLE_PAWN_PUSH)>>
                      ELSE <<>>)
        ELSE <<>>

\* lines 149-176: captures of the pawn on from_sq in one capture direction
PawnCaptures(b, color, from_sq, capture_direction) ==
    LET promo_rank == IF color = White THEN 7 ELSE 0
        enemy == b.color_bb[flip(color)]
        to_sq == from_sq + capture_direction
    IN  IF to_sq >= 0 /\ to_sq < 64 /\ Abs(FileOf(to_sq) - FileOf(from_sq)) = 1
        THEN (IF get_bit(enemy, to_sq)
              THEN IF RankOf(to_sq) = promo_rank
                   THEN PromoMoves(from_sq, to_sq, TRUE)
                   ELSE <<Move(from_sq, to_sq, CAPTURE)>>
              ELSE <<>>)
             \o (IF b.ep_square # None /\ to_sq = b.ep_square[1]
                 THEN <<Move(from_sq, to_sq, EP_CAPTURE)>>
                 ELSE <<>>)
        ELSE <<>>

generate_pawn_moves(b, color) ==
    LET direction == IF color = White THEN 8 ELSE -8
        pawns == BitSeq(b.pieces[color][Pawn])
    IN  Flatten([i \in 1..Len(pawns) |->
                    PawnPushes(b, color, pawns[i])
                    \o PawnCaptures(b, color, pawns[i], direction - 1)
                    \o PawnCaptures(b, color, pawns[i], direction + 1)])

\* the inner loop shared by the knight, bishop, rook, queen and king
\* generators: one move per attacked square, flagged by occupancy
AttackMoves(b, from_sq, attacks) ==
    LET tos == BitSeq(attacks)
    IN  [i \in 1..Len(tos) |->
            Move(from_sq, tos[i],
                 IF get_bit(b.all_pieces, tos[i]) THEN CAPTURE ELSE QUIET_MOVE)]

generate_knight_moves(b, color) ==
    LET knights == BitSeq(b.pieces[color][Knight])
    IN  Flatten([i \in 1..Len(knights) |->
                    AttackMoves(b, knights[i],
                                knight_attacks[knights[i]] \ b.color_bb[color])])

generate_bishop_moves(b, color) ==
    LET bishops == BitSeq(b.pieces[color][Bishop])
    IN  Flatten([i \in 1..Len(bishops) |->
                    AttackMoves(b, bishops[i],
                                get_bishop_attacks(bishops[i], b.all_pieces)
                                    \ b.color_bb[color])])

generate_rook_moves(b, color) ==
    LET rooks == BitSeq(b.pieces[color][Rook])
    IN  Flatten([i \in 1..Len(rooks) |->
                    AttackMoves(b, rooks[i],
                                get_rook_attacks(rooks[i], b.all_pieces)
                                    \ b.color_bb[color])])

generate_queen_moves(b, color) ==
    LET queens == BitSeq(b.pieces[color][Queen])
    IN  Flatten([i \in 1..Len(queens) |->
                    AttackMoves(b, queens[i],
                                get_queen_attacks(queens[i], b.all_pieces)
                                    \ b.color_bb[color])])

generate_king_moves(b, color) ==
    LET king == b.pieces[color][King]
    IN  IF king = {} THEN <<>>
        ELSE LET from_sq == lsb(king)[1]
             IN  AttackMoves(b, from_sq, king_attacks[from_sq] \ b.color_bb[color])

\* one branch of generate_castling_moves: the right, the empty squares and
\* the three king squares that must not be attacked
CastleBranch(b, color, mask, empties, safe, mv) ==
    IF /\ HasBit(b.castling_rights, mask)
       /\ \A sq \in empties : ~get_bit(b.all_pieces, sq)
       /\ \A sq \in safe : ~is_square_attacked(b, sq, flip(color))
    THEN <<mv>>
    ELSE <<>>

\* generate_castling_moves that tests the king's origin square only
generate_castling_moves_OriginOnly(b, color) ==
    IF color = White
    THEN CastleBranch(b, color, 1, {5, 6}, {4}, Move(4, 6, KING_CASTLE))
         \o CastleBranch(b, color, 2, {3, 2, 1}, {4}, Move(4, 2, QUEEN_CASTLE))
    ELSE CastleBranch(b, color, 4, {61, 62}, {60}, Move(60, 62, KING_CASTLE))
         \o CastleBranch(b, color, 8, {59, 58, 57}, {60}, Move(60, 58, QUEEN_CASTLE))

generate_castling_moves(b, color) ==
    IF color = White
    THEN CastleBranch(b, color, 1, {5, 6}, {4, 5, 6}, Move(4, 6, KING_CASTLE))
         \o CastleBranch(b, color, 2, {3, 2, 1}, {4, 3, 2}, Move(4, 2, QUEEN_CASTLE))
    ELSE CastleBranch(b, color, 4, {61, 62}, {60, 61, 62}, Move(60, 62, KING_CASTLE))
         \o CastleBranch(b, color, 8, {59, 58, 57}, {60, 59, 58},
                         Move(60, 58, QUEEN_CASTLE))

generate_pseudo_legal(b) ==
    LET color == b.side_to_move
    IN  generate_pawn_moves(b, color)
        \o generate_knight_moves(b, color)
        \o generate_bishop_moves(b, color)
        \o generate_rook_moves(b, color)
        \o generate_queen_moves(b, color)
        \o generate_king_moves(b, color)
        \o generate_castling_moves(b, color)

\* generate_legal_moves that tests the king of the side to move after the move
generate_legal_moves_OtherKing(b) ==
    SelectSeq(generate_pseudo_legal(b),
              LAMBDA mv : ~is_in_check(make_move(b, mv), make_move(b, mv).side_to_move))

generate_legal_moves(b) ==
    SelectSeq(generate_pseudo_legal(b),
              LAMBDA mv : ~is_in_check(make_move(b, mv), b.side_to_move))

\* lines 75-77: generate_legal_moves makes every pseudo-legal move on a copy
\* of the board; a build with overflow checks panics in one of them
generate_legal_moves_overflows(b) ==
    \E mv \in Elems(generate_pseudo_legal(b)) : make_move_overflows(b, mv)

\* generate_captures
generate_captures(b) ==
    SelectSeq(generate_legal_moves(b), LAMBDA m : is_capture(m))

(***************************************************************************)
(* Strings.  A str is the sequence of the bytes of its UTF-8 encoding, as  *)
(* str::len and the slices of the code count them.  A byte is written as a *)
(* string: the character itself for a printable ASCII character ("grave"   *)
(* for the grave accent), "\t", "\n", "\f" and "\r" for those control       *)
(* characters, and "x" with two hexadecimal digits for every other byte.   *)
(***************************************************************************)
\* the bytes in the order of their values
ByteChars ==
    <<"x00", "x01", "x02", "x03", "x04", "x05", "x06", "x07", "x08", "\t",
      "\n", "x0B", "\f", "\r", "x0E", "x0F", "x10", "x11", "x12", "x13",
      "x14", "x15", "x16", "x17", "x18", "x19", "x1A", "x1B", "x1C", "x1D",
      "x1E", "x1F", " ", "!", "\"", "#", "$", "%", "&", "'", "(", ")", "*",
      "+", ",", "-", ".", "/", "0", "1", "2", "3", "4", "5", "6", "7", "8",
      "9", ":", ";", "<", "=", ">", "?", "@", "A", "B", "C", "D", "E", "F",
      "G", "H", "I", "J", "K", "L", "M", "N", "O", "P", "Q", "R", "S", "T",
      "U", "V", "W", "X", "Y", "Z", "[", "\\", "]", "^", "_", "grave", "a",
      "b", "c", "d", "e", "f", "g", "h", "i", "j", "k", "l", "m", "n", "o",
      "p", "q", "r", "s", "t", "u", "v", "w", "x", "y", "z", "{", "|", "}",
      "~", "x7F", "x80", "x81", "x82", "x83", "x84", "x85", "x86", "x87",
      "x88", "x89", "x8A", "x8B", "x8C", "x8D", "x8E", "x8F", "x90", "x91",
      "x92", "x93", "x94", "x95", "x96", "x97", "x98", "x99", "x9A", "x9B",
      "x9C", "x9D", "x9E", "x9F", "xA0", "xA1", "xA2", "xA3", "xA4", "xA5",
      "xA6", "xA7", "xA8", "xA9", "xAA", "xAB", "xAC", "xAD", "xAE", "xAF",
      "xB0", "xB1", "xB2", "xB3", "xB4", "xB5", "xB6", "xB7", "xB8", "xB9",
      "xBA", "xBB", "xBC", "xBD", "xBE", "xBF", "xC0", "xC1", "xC2", "xC3",
      "xC4", "xC5", "xC6", "xC7", "xC8", "xC9", "xCA", "xCB", "xCC", "xCD",
      "xCE", "xCF", "xD0", "xD1", "xD2", "xD3", "xD4", "xD5", "xD6", "xD7",
      "xD8", "xD9", "xDA", "xDB", "xDC", "xDD", "xDE", "xDF", "xE0", "xE1",
      "xE2", "xE3", "xE4", "xE5", "xE6", "xE7", "xE8", "xE9", "xEA", "xEB",
      "xEC", "xED", "xEE", "xEF", "xF0", "xF1", "xF2", "xF3", "xF4", "xF5",
      "xF6", "xF7", "xF8", "xF9", "xFA", "xFB", "xFC", "xFD", "xFE", "xFF">>

DigitChars == <<"0", "1", "2", "3", "4", "5", "6", "7", "8", "9">>

FileChars == <<"a", "b", "c", "d", "e", "f", "g", "h">>

RankChars == <<"1", "2", "3", "4", "5", "6", "7", "8">>

\* 0-based position of ch in the table, -1 when it is not there
IndexOf(table, ch) ==
    IF \E i \in 1..Len(table) : table[i] = ch
    THEN (CHOOSE i \in 1..Len(table) : table[i] = ch) - 1
    ELSE -1

\* the value of each byte
ByteValues == [ch \in {ByteChars[i] : i \in 1..Len(ByteChars)} |-> IndexOf(ByteChars, ch)]

\* the value of a byte
char_code(ch) == ByteValues[ch]

\* the number of bytes of the character whose first byte has the value v
len_utf8(v) == IF v < 128 THEN 1 ELSE IF v < 224 THEN 2 ELSE IF v < 240 THEN 3 ELSE 4

\* the byte at which the character after the one at byte i of s begins
next_char(s, i) ==
    IF i + len_utf8(char_code(s[i])) > Len(s) THEN Len(s) + 1
    ELSE i + len_utf8(char_code(s[i]))

\* the low six bits of byte i of s, which continues a character
ContinuationBits(s, i) == IF i <= Len(s) THEN char_code(s[i]) % 64 ELSE 0

\* str::chars: the character that begins at byte i of s, as a u32
char_at(s, i) ==
    LET v == char_code(s[i])
    IN  IF v < 128 THEN v
        ELSE IF v < 224 THEN (v % 32) * 64 + ContinuationBits(s, i + 1)
        ELSE IF v < 240
        THEN (v % 16) * 4096 + ContinuationBits(s, i + 1) * 64
                 + ContinuationBits(s, i + 2)
        ELSE (v % 8) * 262144 + ContinuationBits(s, i + 1) * 4096
                 + ContinuationBits(s, i + 2) * 64 + ContinuationBits(s, i + 3)

\* whether byte i of s continues a character
IsContinuation(s, i) == i <= Len(s) /\ char_code(s[i]) \in 128..191

\* whether byte i of s has a value of 128 + lo up to 128 + hi
SecondByteIn(s, i, lo, hi) == i <= Len(s) /\ char_code(s[i]) \in (128 + lo)..(128 + hi)

\* std::str::from_utf8 as BufRead::lines applies it to the bytes of a line:
\* whether the bytes from byte i of s on are characters, none of them
\* longer than need be, a surrogate, or above U+10FFFF
RECURSIVE ValidUtf8From(_, _)
ValidUtf8From(s, i) ==
    IF i > Len(s) THEN TRUE
    ELSE LET v == char_code(s[i])
         IN  IF v < 128 THEN ValidUtf8From(s, i + 1)
             ELSE IF v \in 194..223
             THEN IsContinuation(s, i + 1) /\ ValidUtf8From(s, i + 2)
             ELSE IF v \in 224..239
             THEN /\ SecondByteIn(s, i + 1, IF v = 224 THEN 32 ELSE 0,
                                  IF v = 237 THEN 31 ELSE 63)
                  /\ IsContinuation(s, i + 2)
                  /\ ValidUtf8From(s, i + 3)
             ELSE IF v \in 240..244
             THEN /\ SecondByteIn(s, i + 1, IF v = 240 THEN 16 ELSE 0,
                                  IF v = 244 THEN 15 ELSE 63)
                  /\ IsContinuation(s, i + 2)
                  /\ IsContinuation(s, i + 3)
                  /\ ValidUtf8From(s, i + 4)
             ELSE FALSE

\* str::is_char_boundary, i counted from 0 as the code counts it: i is the
\* start or the end of s, or the byte after the first i bytes begins a
\* character
is_char_boundary(s, i) ==
    \/ i = 0
    \/ i = Len(s)
    \/ i < Len(s) /\ (char_code(s[i + 1]) < 128 \/ char_code(s[i + 1]) >= 192)

\* the character of the code c as a byte of the model; a character above
\* ASCII is none of the characters the code compares with
AsciiOf(c) == IF c < 128 THEN ByteChars[c + 1] ELSE "not ASCII"

\* the characters above ASCII of the general categories Nd, Nl and No
\* (Unicode 14.0), as ranges of codes
NumericRanges ==
    <<<<178, 179>>, <<185, 185>>, <<188, 190>>, <<1632, 1641>>,
      <<1776, 1785>>, <<1984, 1993>>, <<2406, 2415>>, <<2534, 2543>>,
      <<2548, 2553>>, <<2662, 2671>>, <<2790, 2799>>, <<2918, 2927>>,
      <<2930, 2935>>, <<3046, 3058>>, <<3174, 3183>>, <<3192, 3198>>,
      <<3302, 3311>>, <<3416, 3422>>, <<3430, 3448>>, <<3558, 3567>>,
      <<3664, 3673>>, <<3792, 3801>>, <<3872, 3891>>, <<4160, 4169>>,
      <<4240, 4249>>, <<4969, 4988>>, <<5870, 5872>>, <<6112, 6121>>,
      <<6128, 6137>>, <<6160, 6169>>, <<6470, 6479>>, <<6608, 6618>>,
      <<6784, 6793>>, <<6800, 6809>>, <<6992, 7001>>, <<7088, 7097>>,
      <<7232, 7241>>, <<7248, 7257>>, <<8304, 8304>>, <<8308, 8313>>,
      <<8320, 8329>>, <<8528, 8578>>, <<8581, 8585>>, <<9312, 9371>>,
      <<9450, 9471>>, <<10102, 10131>>, <<11517, 11517>>, <<12295, 12295>>,
      <<12321, 12329>>, <<12344, 12346>>, <<12690, 12693>>, <<12832, 12841>>,
      <<12872, 12879>>, <<12881, 12895>>, <<12928, 12937>>, <<12977, 12991>>,
      <<42528, 42537>>, <<42726, 42735>>, <<43056, 43061>>, <<43216, 43225>>,
      <<43264, 43273>>, <<43472, 43481>>, <<43504, 43513>>, <<43600, 43609>>,
      <<44016, 44025>>, <<65296, 65305>>, <<65799, 65843>>, <<65856, 65912>>,
      <<65930, 65931>>, <<66273, 66299>>, <<66336, 66339>>, <<66369, 66369>>,
      <<66378, 66378>>, <<66513, 66517>>, <<66720, 66729>>, <<67672, 67679>>,
      <<67705, 67711>>, <<67751, 67759>>, <<67835, 67839>>, <<67862, 67867>>,
      <<68028, 68029>>, <<68032, 68047>>, <<68050, 68095>>, <<68160, 68168>>,
      <<68221, 68222>>, <<68253, 68255>>, <<68331, 68335>>, <<68440, 68447>>,
      <<68472, 68479>>, <<68521, 68527>>, <<68858, 68863>>, <<68912, 68921>>,
      <<69216, 69246>>, <<69405, 69414>>, <<69457, 69460>>, <<69573, 69579>>,
      <<69714, 69743>>, <<69872, 69881>>, <<69942, 69951>>, <<70096, 70105>>,
      <<70113, 70132>>, <<70384, 70393>>, <<70736, 70745>>, <<70864, 70873>>,
      <<71248, 71257>>, <<71360, 71369>>, <<71472, 71483>>, <<71904, 71922>>,
      <<72016, 72025>>, <<72784, 72812>>, <<73040, 73049>>, <<73120, 73129>>,
      <<73664, 73684>>, <<74752, 74862>>, <<92768, 92777>>, <<92864, 92873>>,
      <<93008, 93017>>, <<93019, 93025>>, <<93824, 93846>>,
      <<119520, 119539>>, <<119648, 119672>>, <<120782, 120831>>,
      <<123200, 123209>>, <<123632, 123641>>, <<125127, 125135>>,
      <<125264, 125273>>, <<126065, 126123>>, <<126125, 126127>>,
      <<126129, 126132>>, <<126209, 126253>>, <<126255, 126269>>,
      <<127232, 127244>>, <<130032, 130041>>>>

\* the characters Unicode 15.0, 16.0 and 17.0 have added to those
\* categories: whether one of them is numeric is the toolchain's, whose
\* standard library holds the tables of one version of Unicode
LaterNumericRanges ==
    <<<<68928, 68937>>, <<71376, 71395>>, <<72688, 72697>>, <<73184, 73193>>,
      <<73552, 73561>>, <<90416, 90425>>, <<93552, 93561>>, <<94196, 94198>>,
      <<118000, 118009>>, <<119488, 119507>>, <<124144, 124153>>,
      <<124401, 124410>>>>

InRanges(c, ranges) ==
    \E r \in 1..Len(ranges) : ranges[r][1] <= c /\ c <= ranges[r][2]

\* char::is_numeric; later tells whether the tables of the build hold the
\* character when it is one of LaterNumericRanges
is_numeric(c, later) ==
    \/ c \in 48..57
    \/ c > 127 /\ InRanges(c, NumericRanges)
    \/ later /\ InRanges(c, LaterNumericRanges)

\* char::to_digit(10): the ASCII digits have one
to_digit(c) == IF c \in 48..57 THEN Some(c - 48) ELSE None

UpperPieceChars == <<"P", "N", "B", "R", "Q", "K">>

LowerPieceChars == <<"p", "n", "b", "r", "q", "k">>

\* char::is_uppercase of an ASCII character; from_fen takes the colour of
\* a piece letter from it
is_uppercase(ch) ==
    ch \in {"A", "B", "C", "D", "E", "F", "G", "H", "I", "J", "K", "L", "M",
            "N", "O", "P", "Q", "R", "S", "T", "U", "V", "W", "X", "Y", "Z"}

\* the match on ch.to_ascii_lowercase() in from_fen: the piece kind of a
\* letter of either case, 0 for any other character
PieceOfChar(ch) ==
    IF IndexOf(LowerPieceChars, ch) >= 0 THEN IndexOf(LowerPieceChars, ch) + 1
    ELSE IF IndexOf(UpperPieceChars, ch) >= 0 THEN IndexOf(UpperPieceChars, ch) + 1
    ELSE 0

\* u32/u16 to_string: the decimal digits of n, no leading zeros
RECURSIVE to_string(_)
to_string(n) ==
    IF n < 10 THEN <<DigitChars[n + 1]>>
    ELSE Append(to_string(n \div 10), DigitChars[(n % 10) + 1])

\* the value of a digit string read left to right, byte by byte as
\* from_str_radix reads it, -1 once it leaves u16 or at a byte that is no
\* digit
RECURSIVE DigitsValue(_, _, _)
DigitsValue(s, i, acc) ==
    IF i > Len(s) THEN acc
    ELSE IF to_digit(char_code(s[i])) = None THEN -1
    ELSE LET v == acc * 10 + to_digit(char_code(s[i]))[1]
         IN  IF v >= U16 THEN -1 ELSE DigitsValue(s, i + 1, v)

\* str::parse::<u16>().unwrap_or(default): an optional '+', then digits
parse_u16_or(s, default) ==
    LET body == IF Len(s) > 0 /\ s[1] = "+" THEN Tail(s) ELSE s
        v == IF Len(body) = 0 THEN -1 ELSE DigitsValue(body, 1, 0)
    IN  IF v < 0 THEN default ELSE v

\* char::is_whitespace: the characters of the property White_Space
is_whitespace(c) ==
    \/ c \in 9..13
    \/ c \in {32, 133, 160, 5760, 8232, 8233, 8239, 8287, 12288}
    \/ c \in 8192..8202

\* str::split_whitespace: the maximal runs of characters that are not
\* whitespace, read from byte i on
RECURSIVE SplitFrom(_, _, _, _)
SplitFrom(s, i, cur, parts) ==
    IF i > Len(s) THEN (IF cur = <<>> THEN parts ELSE Append(parts, cur))
    ELSE IF is_whitespace(char_at(s, i))
    THEN SplitFrom(s, next_char(s, i), <<>>,
                   IF cur = <<>> THEN parts ELSE Append(parts, cur))
    ELSE SplitFrom(s, next_char(s, i), cur \o SubSeq(s, i, next_char(s, i) - 1), parts)

split_whitespace(s) == SplitFrom(s, 1, <<>>, <<>>)

Ok(x) == [ok |-> TRUE, val |-> x]

Err == [ok |-> FALSE]

\* board.rs lines 503-513.  s.len() counts bytes, and file and rank are the
\* first and the second character as u8 less 'a' and '1'.  A string of two
\* bytes that is one character has no second character: the unwrap of
\* line 508 panics in every build (panics).  Below 'a' or '1' a build with
\* overflow checks panics (overflows), a build without wraps the difference
\* to a value above 7.
parse_square(s) ==
    IF Len(s) # 2 THEN [ok |-> FALSE, overflows |-> FALSE, panics |-> FALSE]
    ELSE IF next_char(s, 1) > 2
    THEN [ok |-> FALSE, overflows |-> char_at(s, 1) % 256 < 97, panics |-> TRUE]
    ELSE LET file == (char_code(s[1]) - 97) % 256
             rank == (char_code(s[2]) - 49) % 256
             overflows == char_code(s[1]) < 97 \/ char_code(s[2]) < 49
         IN  IF file > 7 \/ rank > 7
             THEN [ok |-> FALSE, overflows |-> overflows, panics |-> FALSE]
             ELSE [ok |-> TRUE, val |-> rank * 8 + file, overflows |-> overflows,
                   panics |-> FALSE]

\* square_name with rank and file exchanged
square_name_Swapped(sq) == <<FileChars[RankOf(sq) + 1], RankChars[FileOf(sq) + 1]>>

\* board.rs lines 515-519
square_name(sq) == <<FileChars[FileOf(sq) + 1], RankChars[RankOf(sq) + 1]>>

(***************************************************************************)
(* board.rs: from_fen                                                      *)
(***************************************************************************)
\* lines 63-74
EmptyBoard ==
    [pieces |-> [c \in 0..1 |-> [k \in 0..6 |-> {}]],
     color_bb |-> [c \in 0..1 |-> {}],
     all_pieces |-> {},
     side_to_move |-> White,
     castling_rights |-> 0,
     ep_square |-> None,
     halfmove_clock |-> 0,
     fullmove_number |-> 1,
     hash |-> {},
     position_history |-> <<>>]

\* i8 arithmetic: the value an operation leaves in an i8 when the build
\* wraps, and whether the exact result leaves the type
wrap_i8(x) == ((x + 128) % 256) - 128

leaves_i8(x) == x < -128 \/ x > 127

\* lines 76-106: the piece placement field.  rank and file are i8, the
\* square is (rank * 8 + file) as u8, and set_bit shifts 1u64 by it.  A
\* build with overflow checks panics where the arithmetic leaves i8 or the
\* shift amount is 64 or more; a build without wraps the arithmetic and
\* takes the shift amount modulo 64.  The result is the wrapping build's,
\* with overflows telling that the checking build has panicked on the way.
\* A character that is numeric and no ASCII digit has no to_digit(10): the
\* unwrap of line 85 panics in every build (panics).  A character of
\* LaterNumericRanges is numeric in a build whose tables hold it, which
\* panics there, and the letter of no piece in a build whose tables do
\* not, which returns an error: the result is the latter's, with later
\* telling that the former has panicked.
PlacementState(ok, rank, file, b, overflows, panics, later) ==
    [ok |-> ok, rank |-> rank, file |-> file, b |-> b, overflows |-> overflows,
     panics |-> panics, later |-> later]

\* lines 81-105: one character of the field, c its code
PlacementStep(c, rank, file, b, overflows) ==
    IF AsciiOf(c) = "/"
    THEN PlacementState(TRUE, wrap_i8(rank - 1), 0, b,
                        overflows \/ leaves_i8(rank - 1), FALSE, FALSE)
    ELSE IF is_numeric(c, FALSE)
    THEN IF to_digit(c) = None
         THEN PlacementState(FALSE, rank, file, b, overflows, TRUE, FALSE)
         ELSE PlacementState(TRUE, rank, wrap_i8(file + to_digit(c)[1]), b,
                             overflows \/ leaves_i8(file + to_digit(c)[1]), FALSE,
                             FALSE)
    ELSE LET sq == wrap_i8(wrap_i8(rank * 8) + file) % 256
             color == IF is_uppercase(AsciiOf(c)) THEN White ELSE Black
             piece == PieceOfChar(AsciiOf(c))
             wrapped == overflows \/ leaves_i8(rank * 8)
                            \/ leaves_i8(wrap_i8(rank * 8) + file)
         IN  IF piece = 0
             THEN PlacementState(FALSE, rank, file, b, wrapped, FALSE,
                                 is_numeric(c, TRUE))
             ELSE PlacementState(TRUE, rank, wrap_i8(file + 1),
                      [b EXCEPT
                         !.pieces[color][piece] = set_bit(b.pieces[color][piece], sq % 64),
                         !.color_bb[color] = set_bit(b.color_bb[color], sq % 64),
                         !.all_pieces = set_bit(b.all_pieces, sq % 64)],
                      wrapped \/ sq >= 64 \/ leaves_i8(file + 1), FALSE, FALSE)

\* line 81: the characters of the field from byte i on
RECURSIVE ParsePlacement(_, _, _, _, _, _)
ParsePlacement(field, i, rank, file, b, overflows) ==
    IF i > Len(field)
    THEN [ok |-> TRUE, val |-> b, overflows |-> overflows, panics |-> FALSE,
          later |-> FALSE]
    ELSE LET st == PlacementStep(char_at(field, i), rank, file, b, overflows)
         IN  IF ~st.ok
             THEN [ok |-> FALSE, overflows |-> st.overflows, panics |-> st.panics,
                   later |-> st.later]
             ELSE ParsePlacement(field, next_char(field, i), st.rank, st.file, st.b,
                                 st.overflows)

\* lines 110-120: the castling field
CastleBitOfChar(ch) ==
    CASE ch = "K" -> 1
      [] ch = "Q" -> 2
      [] ch = "k" -> 4
      [] ch = "q" -> 8
      [] OTHER -> 0

RECURSIVE ParseCastling(_, _, _)
ParseCastling(field, i, rights) ==
    IF i > Len(field) THEN rights
    ELSE LET bit == CastleBitOfChar(field[i])
         IN  ParseCastling(field, i + 1,
                 IF bit # 0 /\ ~HasBit(rights, bit) THEN rights + bit ELSE rights)

\* the result of from_fen in the build that wraps; overflows tells that the
\* build with overflow checks panics instead of returning it, panics that
\* every build panics, later that a build panics whose tables hold the
\* characters of LaterNumericRanges
from_fen(fen) ==
    LET parts == split_whitespace(fen)
    IN  IF Len(parts) < 4
        THEN [ok |-> FALSE, overflows |-> FALSE, panics |-> FALSE, later |-> FALSE]
        ELSE LET placed == ParsePlacement(parts[1], 1, 7, 0, EmptyBoard, FALSE)
                 ep == IF parts[4] # <<"-">> THEN parse_square(parts[4])
                       ELSE [ok |-> FALSE, overflows |-> FALSE, panics |-> FALSE]
             IN  IF ~placed.ok THEN placed
                 ELSE IF parts[4] # <<"-">> /\ ~ep.ok
                 THEN [ok |-> FALSE, overflows |-> placed.overflows \/ ep.overflows,
                       panics |-> ep.panics, later |-> FALSE]
                 ELSE LET b1 == [placed.val EXCEPT
                            !.side_to_move = IF parts[2] = <<"w">> THEN White ELSE Black,
                            !.castling_rights = IF parts[3] # <<"-">>
                                                THEN ParseCastling(parts[3], 1, 0)
                                                ELSE 0,
                            !.ep_square = IF parts[4] # <<"-">> THEN Some(ep.val)
                                          ELSE None,
                            !.halfmove_clock = IF Len(parts) > 4
                                               THEN parse_u16_or(parts[5], 0) ELSE 0,
                            !.fullmove_number = IF Len(parts) > 5
                                                THEN parse_u16_or(parts[6], 1) ELSE 1]
                          hash == compute_hash(b1)
                      IN  [ok |-> TRUE,
                           val |-> [b1 EXCEPT !.hash = hash,
                                              !.position_history = <<hash>>],
                           overflows |-> placed.overflows \/ ep.overflows,
                           panics |-> FALSE,
                           later |-> FALSE]

(***************************************************************************)
(* board.rs: to_fen                                                        *)
(***************************************************************************)
\* lines 151-160: the letter of a piece
PieceChar(piece, color) ==
    IF color = White THEN UpperPieceChars[piece] ELSE LowerPieceChars[piece]

\* lines 144-167: one rank, file 0 up to 7, then the pending empty count
RECURSIVE RankFen(_, _, _, _, _)
RankFen(b, rank, file, empty, fen) ==
    IF file > 7 THEN (IF empty > 0 THEN fen \o to_string(empty) ELSE fen)
    ELSE LET pc == piece_at(b, rank * 8 + file)
         IN  IF pc # None
             THEN RankFen(b, rank, file + 1, 0,
                      Append(IF empty > 0 THEN fen \o to_string(empty) ELSE fen,
                             PieceChar(pc[1][1], pc[1][2])))
             ELSE RankFen(b, rank, file + 1, empty + 1, fen)

\* lines 142-171: the piece placement, rank 7 down to 0, a '/' after every
\* rank but the last
RECURSIVE PlacementFen(_, _)
PlacementFen(b, rank) ==
    IF rank = 0 THEN RankFen(b, 0, 0, 0, <<>>)
    ELSE RankFen(b, rank, 0, 0, <<>>) \o <<"/">> \o PlacementFen(b, rank - 1)

\* lines 176-184
CastlingFen(rights) ==
    IF rights = 0 THEN <<"-">>
    ELSE (IF HasBit(rights, 1) THEN <<"K">> ELSE <<>>)
         \o (IF HasBit(rights, 2) THEN <<"Q">> ELSE <<>>)
         \o (IF HasBit(rights, 4) THEN <<"k">> ELSE <<>>)
         \o (IF HasBit(rights, 8) THEN <<"q">> ELSE <<>>)

to_fen(b) ==
    PlacementFen(b, 7)
    \o <<" ", IF b.side_to_move = White THEN "w" ELSE "b", " ">>
    \o CastlingFen(b.castling_rights)
    \o <<" ">>
    \o (IF b.ep_square # None THEN square_name(b.ep_square[1]) ELSE <<"-">>)
    \o <<" ">> \o to_string(b.halfmove_clock)
    \o <<" ">> \o to_string(b.fullmove_number)

(***************************************************************************)
(* Start positions, as FEN strings                                         *)
(***************************************************************************)
\* the default position, board.rs line 51
\* "rnbqkbnr/pppppppp/8/8/8/8/PPPPPPPP/RNBQKBNR w KQkq - 0 1"
StartFen ==
    <<"r", "n", "b", "q", "k", "b", "n", "r", "/", "p", "p", "p", "p", "p", "p", "p",
      "p", "/", "8", "/", "8", "/", "8", "/", "8", "/", "P", "P", "P", "P", "P", "P",
      "P", "P", "/", "R", "N", "B", "Q", "K", "B", "N", "R", " ", "w", " ", "K", "Q",
      "k", "q", " ", "-", " ", "0", " ", "1">>

\* both sides hold both castling rights on clear back ranks; a bishop attacks f1
\* "r3k2r/8/b7/8/8/8/8/R3K2R w KQkq - 0 1"
CastleFen ==
    <<"r", "3", "k", "2", "r", "/", "8", "/", "b", "7", "/", "8", "/", "8", "/", "8",
      "/", "8", "/", "R", "3", "K", "2", "R", " ", "w", " ", "K", "Q", "k", "q", " ",
      "-", " ", "0", " ", "1">>

\* pawns one step from promotion, next to cornered rooks that carry rights
\* "r3k3/1P6/8/8/8/8/P5p1/4K2R b Kq - 0 40"
PromoFen ==
    <<"r", "3", "k", "3", "/", "1", "P", "6", "/", "8", "/", "8", "/", "8", "/", "8",
      "/", "P", "5", "p", "1", "/", "4", "K", "2", "R", " ", "b", " ", "K", "q", " ",
      "-", " ", "0", " ", "4", "0">>

\* a double push next to an enemy pawn: en passant becomes possible
\* "4k3/8/8/8/3p4/8/4P3/4K3 w - - 0 30"
EpFen ==
    <<"4", "k", "3", "/", "8", "/", "8", "/", "8", "/", "3", "p", "4", "/", "8", "/",
      "4", "P", "3", "/", "4", "K", "3", " ", "w", " ", "-", " ", "-", " ", "0", " ",
      "3", "0">>

\* two kings: every move is reversible
\* "7k/8/8/8/8/8/8/K7 w - - 10 50"
KingsFen ==
    <<"7", "k", "/", "8", "/", "8", "/", "8", "/", "8", "/", "8", "/", "8", "/", "K",
      "7", " ", "w", " ", "-", " ", "-", " ", "1", "0", " ", "5", "0">>

\* a castling right without its rook: from_fen accepts it
\* "4k3/8/8/8/8/8/8/4K3 w K - 0 1"
NoRookFen ==
    <<"4", "k", "3", "/", "8", "/", "8", "/", "8", "/", "8", "/", "8", "/", "8", "/",
      "4", "K", "3", " ", "w", " ", "K", " ", "-", " ", "0", " ", "1">>

\* a rank of eight empty squares and a rook: the rook is set on a8, where
\* the queen of the rank above stands; from_fen accepts it
\* "Q6n/8R/8/8/8/8/7k/K7 w - - 0 1"
OverlapFen ==
    <<"Q", "6", "n", "/", "8", "R", "/", "8", "/", "8", "/", "8", "/", "8", "/", "7",
      "k", "/", "K", "7", " ", "w", " ", "-", " ", "-", " ", "0", " ", "1">>

\* the positions a game is started from; all of them occur in legal games
\* from the default position
GameStarts ==
    {[fen |-> StartFen, budget |-> MaxPly],
     [fen |-> PromoFen, budget |-> MaxPly],
     [fen |-> EpFen, budget |-> MaxPly],
     [fen |-> CastleFen, budget |-> MaxPly - 1],
     [fen |-> KingsFen, budget |-> MaxPlySparse]}

\* the same, and positions from_fen accepts though no game reaches them
AnyFenStarts ==
    GameStarts \cup {[fen |-> NoRookFen, budget |-> MaxPly],
                     [fen |-> OverlapFen, budget |-> MaxPly]}

(***************************************************************************)
(* search.rs: TranspositionTable.  The Vec<Option<TTEntry>> of `size`      *)
(* slots is the function from the indices of its Some slots to their       *)
(* entries; every other index below `size` holds None.                     *)
(***************************************************************************)
TT_EXACT == 0

TT_ALPHA == 1

TT_BETA == 2

\* std::mem::size_of::<Option<TTEntry>>(): u64, i32, Option<Move> (4 bytes),
\* three u8, padded to the alignment of u64; the None of the Option is a
\* niche of the inner Option<Move>
EntryBytes == 24

EmptyTable == [i \in {} |-> 0]

TTEntry(hash, depth, score, flag, best_move, age) ==
    [hash |-> hash, depth |-> depth, score |-> score, flag |-> flag,
     best_move |-> best_move, age |-> age]

\* line 1018 and line 1077: the entries of a table of size_mb megabytes,
\* size_mb a usize; the product wraps in a build that does not trap
TableEntries(size_mb) ==
    BnDivSmall(wrap_u64(BnMulSmall(BnMulSmall(size_mb, 1024), 1024)), EntryBytes)

\* `size_mb * 1024 * 1024` leaves usize: a build that traps panics
table_size_overflows(size_mb) ==
    leaves_u64(BnMulSmall(BnMulSmall(size_mb, 1024), 1024))

\* isize::MAX, the most bytes a Vec may hold
ISIZE_MAX == BnSub(BnShl(<<1>>, 63), <<1>>)

\* `vec![None; size]`, size a usize: whether the process ends there.  No
\* memory is asked for when size is 0; more than isize::MAX bytes panic
\* with a capacity overflow; and for every size between, whether the
\* memory is there is the machine's: the allocation succeeds, or it fails
\* and the process is aborted
vec_alloc_fails(size) ==
    IF size = <<>> THEN {FALSE}
    ELSE IF BnCmp(BnMulSmall(size, EntryBytes), ISIZE_MAX) > 0 THEN {TRUE}
    ELSE BOOLEAN

\* TranspositionTable::new, where the table can be allocated; size is a
\* usize
tt_new(size_mb) ==
    [size |-> TableEntries(BnFromInt(size_mb)), table |-> EmptyTable,
     current_age |-> 0]

\* `(hash as usize) % self.size` panics when size is 0 (remainder by zero)
tt_index_panics(t) == t.size = <<>>

\* (r + d) % n for r and d below n, n below 2^31
AddMod(r, d, n) == IF r >= n - d THEN r - (n - d) ELSE r + d

\* (r * 2^k) % n for r below n
RECURSIVE ShlMod(_, _, _)
ShlMod(r, k, n) == IF k = 0 \/ r = 0 THEN r ELSE ShlMod(AddMod(r, r, n), k - 1, n)

\* a % n of the digits i down to 1 of a, after the digits above have left
\* r (r is never negative: the test has it evaluated digit by digit)
RECURSIVE BnModFrom(_, _, _, _)
BnModFrom(a, n, i, r) ==
    IF i = 0 \/ r < 0 THEN r
    ELSE BnModFrom(a, n, i - 1, AddMod(ShlMod(r, 15, n), a[i] % n, n))

\* `(hash as usize) % self.size`, hash a u64, where size is not 0: a usize
tt_index(t, hash) ==
    IF BnFits(t.size)
    THEN BnFromInt(BnModFrom(hash, BnToInt(t.size), Len(hash), 0))
    ELSE BnDivMod(hash, t.size).r

\* TranspositionTable::probe with every entry returned whatever its hash
probe_NoHashCheck(t, hash) ==
    LET index == tt_index(t, hash)
    IN  IF index \in DOMAIN t.table THEN Some(t.table[index]) ELSE None

\* TranspositionTable::probe, where it does not panic
probe(t, hash) ==
    LET index == tt_index(t, hash)
    IN  IF index \in DOMAIN t.table /\ t.table[index].hash = hash
        THEN Some(t.table[index])
        ELSE None

\* u8::wrapping_sub
wrapping_sub_u8(a, b) == (a - b + 256) % 256

\* lines 1040-1057
should_replace(t, index, hash, depth) ==
    IF index \in DOMAIN t.table
    THEN LET entry == t.table[index]
         IN  IF entry.hash = hash THEN TRUE
             ELSE LET depth_diff == depth - entry.depth
                      age_diff == wrapping_sub_u8(t.current_age, entry.age)
                  IN  depth_diff >= 3 \/ age_diff >= 4
                         \/ (depth_diff >= 0 /\ age_diff >= 2)
    ELSE TRUE

\* TranspositionTable::store, where it does not panic
store(t, hash, depth, score, flag, best_move) ==
    LET index == tt_index(t, hash)
    IN  IF should_replace(t, index, hash, depth)
        THEN [t EXCEPT !.table =
                 [i \in DOMAIN t.table \cup {index} |->
                     IF i = index
                     THEN TTEntry(hash, depth, score, flag, best_move, t.current_age)
                     ELSE t.table[i]]]
        ELSE t

\* TranspositionTable::clear, where the table can be allocated
tt_clear(t) == [t EXCEPT !.table = EmptyTable, !.current_age = 0]

\* TranspositionTable::resize, size_mb a usize, where the table can be
\* allocated
resize(t, size_mb) ==
    [size |-> TableEntries(size_mb), table |-> EmptyTable, current_age |-> 0]

\* TranspositionTable::increment_age (never called)
increment_age(t) == [t EXCEPT !.current_age = (t.current_age + 1) % 256]

(***************************************************************************)
(* search.rs: constants, ThreadData, SearchEngine                          *)
(***************************************************************************)
INFINITY == 999999

MATE_SCORE == 900000

MAX_PLY == 128

MAX_THREADS == 256

\* board.rs line 33, for the pieces Pawn (1) to King (6)
PIECE_VALUES == <<100, 320, 330, 500, 900, 20000>>

Min(x, y) == IF x < y THEN x ELSE y

Max(x, y) == IF x > y THEN x ELSE y

\* Ord::clamp
clamp(x, lo, hi) == IF x < lo THEN lo ELSE IF x > hi THEN hi ELSE x

\* u8::saturating_sub and u8::saturating_add
saturating_sub(a, b) == IF a < b THEN 0 ELSE a - b

saturating_add(a, b) == IF a + b > 255 THEN 255 ELSE a + b

\* LMR_TABLE: row depth lists, for v = 1, 2, ..., the least moves with
\* floor(ln(depth) * ln(moves) / 2) >= v, for depth and moves in 1..63
LmrThresholds ==
    <<<<>>,
      <<18>>,
      <<7, 39>>,
      <<5, 18>>,
      <<4, 13, 42>>,
      <<4, 10, 29>>,
      <<3, 8, 22, 62>>,
      <<3, 7, 18, 47>>,
      <<3, 7, 16, 39>>,
      <<3, 6, 14, 33>>,
      <<3, 6, 13, 29>>,
      <<3, 6, 12, 26, 56>>,
      <<3, 5, 11, 23, 50>>,
      <<3, 5, 10, 21, 45>>,
      <<3, 5, 10, 20, 41>>,
      <<3, 5, 9, 18, 37>>,
      <<3, 5, 9, 17, 35>>,
      <<2, 4, 8, 16, 32>>,
      <<2, 4, 8, 16, 30, 59>>,
      <<2, 4, 8, 15, 29, 55>>,
      <<2, 4, 8, 14, 27, 52>>,
      <<2, 4, 7, 14, 26, 49>>,
      <<2, 4, 7, 13, 25, 46>>,
      <<2, 4, 7, 13, 24, 44>>,
      <<2, 4, 7, 13, 23, 42>>,
      <<2, 4, 7, 12, 22, 40>>,
      <<2, 4, 7, 12, 21, 39>>,
      <<2, 4, 7, 12, 21, 37>>,
      <<2, 4, 6, 11, 20, 36>>,
      <<2, 4, 6, 11, 19, 35, 62>>,
      <<2, 4, 6, 11, 19, 33, 59>>,
      <<2, 4, 6, 11, 18, 32, 57>>,
      <<2, 4, 6, 10, 18, 31, 55>>,
      <<2, 4, 6, 10, 18, 31, 53>>,
      <<2, 4, 6, 10, 17, 30, 52>>,
      <<2, 4, 6, 10, 17, 29, 50>>,
      <<2, 4, 6, 10, 16, 28, 49>>,
      <<2, 4, 6, 10, 16, 28, 47>>,
      <<2, 3, 6, 9, 16, 27, 46>>,
      <<2, 3, 6, 9, 16, 26, 45>>,
      <<2, 3, 6, 9, 15, 26, 44>>,
      <<2, 3, 5, 9, 15, 25, 43>>,
      <<2, 3, 5, 9, 15, 25, 42>>,
      <<2, 3, 5, 9, 15, 24, 41>>,
      <<2, 3, 5, 9, 14, 24, 40>>,
      <<2, 3, 5, 9, 14, 23, 39>>,
      <<2, 3, 5, 8, 14, 23, 38>>,
      <<2, 3, 5, 8, 14, 23, 38, 63>>,
      <<2, 3, 5, 8, 14, 22, 37, 62>>,
      <<2, 3, 5, 8, 13, 22, 36, 60>>,
      <<2, 3, 5, 8, 13, 22, 36, 59>>,
      <<2, 3, 5, 8, 13, 21, 35, 58>>,
      <<2, 3, 5, 8, 13, 21, 34, 57>>,
      <<2, 3, 5, 8, 13, 21, 34, 56>>,
      <<2, 3, 5, 8, 13, 20, 33, 55>>,
      <<2, 3, 5, 8, 12, 20, 33, 54>>,
      <<2, 3, 5, 8, 12, 20, 32, 53>>,
      <<2, 3, 5, 8, 12, 20, 32, 52>>,
      <<2, 3, 5, 8, 12, 19, 31, 51>>,
      <<2, 3, 5, 8, 12, 19, 31, 50>>,
      <<2, 3, 5, 8, 12, 19, 31, 50>>,
      <<2, 3, 5, 7, 12, 19, 30, 49>>,
      <<2, 3, 5, 7, 12, 19, 30, 48>>>>

\* LMR_TABLE[depth][moves]; row 0 and column 0 hold 0
LMR_TABLE(depth, moves) ==
    IF depth = 0 \/ moves = 0 THEN 0
    ELSE Min(Cardinality({v \in DOMAIN LmrThresholds[depth] :
                              LmrThresholds[depth][v] <= moves}),
             depth - 1)

\* ThreadData::new and what ThreadData::clear leaves.  killer_moves maps
\* the plies that hold a killer to their two slots and history_table the
\* (from, to) pairs with a nonzero score to it; pv maps a ply to
\* pv_table[ply][0 .. pv_length[ply]].
ThreadData_new ==
    [killer_moves |-> EmptyTable,
     history_table |-> EmptyTable,
     nodes_searched |-> 0,
     pv |-> EmptyTable]

killers_at(td, ply) ==
    IF ply \in DOMAIN td.killer_moves THEN td.killer_moves[ply] ELSE <<None, None>>

history_at(td, from, to) ==
    IF <<from, to>> \in DOMAIN td.history_table THEN td.history_table[<<from, to>>]
    ELSE 0

pv_at(td, ply) == IF ply \in DOMAIN td.pv THEN td.pv[ply] ELSE <<>>

\* f with the value v at x
Put(f, x, v) == [y \in DOMAIN f \cup {x} |-> IF y = x THEN v ELSE f[y]]

\* SearchEngine::new, less the transposition table
SearchEngine_new(threads) ==
    LET n == clamp(threads, 1, MAX_THREADS)
    IN  [threads |-> n,
         nodes |-> 0,
         stop |-> FALSE,
         multi_pv |-> 1,
         thread_data |-> [t \in 0..(n - 1) |-> ThreadData_new]]

update_killers_internal(mv, ply, td) ==
    IF ply >= MAX_PLY THEN td
    ELSE LET ks == killers_at(td, ply)
         IN  IF ks[1] # None /\ ks[1][1].from = mv.from /\ ks[1][1].to = mv.to
             THEN td
             ELSE [td EXCEPT !.killer_moves = Put(td.killer_moves, ply, <<Some(mv), ks[1]>>)]

\* i32 division truncates toward zero
div_trunc(a, b) == IF a >= 0 THEN a \div b ELSE -((-a) \div b)

update_history_raw_internal(mv, delta, td) ==
    LET entry == history_at(td, mv.from, mv.to) + delta
        h1 == Put(td.history_table, <<mv.from, mv.to>>, entry)
    IN  [td EXCEPT !.history_table =
            IF Abs(entry) > 10000
            THEN [k \in DOMAIN h1 |-> div_trunc(h1[k], 2)]
            ELSE h1]

update_history_internal(mv, depth, td) ==
    update_history_raw_internal(mv, depth * depth, td)

(***************************************************************************)
(* search.rs: move ordering                                                *)
(***************************************************************************)
mvv_lva_score(b, mv) ==
    LET victim == IF piece_at(b, mv.to) # None
                  THEN PIECE_VALUES[piece_at(b, mv.to)[1][1]] ELSE 100
        attacker == IF piece_at(b, mv.from) # None
                    THEN PIECE_VALUES[piece_at(b, mv.from)[1][1]] ELSE 0
    IN  victim * 10 - attacker \div 10

see_capture(b, mv, threshold) ==
    IF ~is_capture(mv) THEN TRUE
    ELSE LET victim_value == IF piece_at(b, mv.to) # None
                             THEN PIECE_VALUES[piece_at(b, mv.to)[1][1]] ELSE 100
             attacker_value == IF piece_at(b, mv.from) # None
                               THEN PIECE_VALUES[piece_at(b, mv.from)[1][1]] ELSE 0
         IN  victim_value - attacker_value >= threshold

SameFromTo(opt, mv) == opt # None /\ opt[1].from = mv.from /\ opt[1].to = mv.to

score_move_internal(b, mv, tt_move, killers, td) ==
    IF SameFromTo(tt_move, mv) THEN 10000000
    ELSE IF is_capture(mv)
    THEN 9000000 + mvv_lva_score(b, mv) + (IF see_capture(b, mv, 0) THEN 100000 ELSE 0)
    ELSE IF is_promotion(mv)
    THEN 8000000 + (CASE promotion_piece(mv) = Some(Queen) -> 4000
                      [] promotion_piece(mv) = Some(Knight) -> 3000
                      [] promotion_piece(mv) = Some(Rook) -> 2000
                      [] promotion_piece(mv) = Some(Bishop) -> 1000
                      [] OTHER -> 0)
    ELSE IF SameFromTo(killers[1], mv) THEN 7000000
    ELSE IF SameFromTo(killers[2], mv) THEN 6900000
    ELSE clamp(history_at(td, mv.from, mv.to), -10000, 10000)

\* Vec::sort_by_cached_key: the elements by ascending key, elements of
\* equal key in the order they had (the sort is stable); key[i] is the key
\* of the i-th element
SortedByKey(moves, key) ==
    LET n == Len(moves)
        place == [i \in 1..n |->
                     1 + Cardinality({j \in 1..n :
                                         key[j] < key[i] \/ (key[j] = key[i] /\ j < i)})]
    IN  [p \in 1..n |-> moves[CHOOSE i \in 1..n : place[i] = p]]

order_moves_internal(b, moves, tt_move, ply, td) ==
    LET killers == killers_at(td, ply)
    IN  SortedByKey(moves,
                    [i \in 1..Len(moves) |->
                        -score_move_internal(b, moves[i], tt_move, killers, td)])

order_captures_internal(b, captures) ==
    SortedByKey(captures,
                [i \in 1..Len(captures) |->
                    -mvv_lva_score(b, captures[i])
                    - (IF see_capture(b, captures[i], 0) THEN 100000 ELSE 0)])

(***************************************************************************)
(* eval.rs: the weights of the evaluation                                  *)
(***************************************************************************)
ABSOLUTE_PIN_PENALTY == 50

RELATIVE_PIN_PENALTY == 15

FORK_BONUS == 50

SKEWER_BONUS == 40

DISCOVERED_ATTACK_BONUS == 35

TRAPPED_PIECE == 120

THREAT_BONUS == 30

BISHOP_PAIR_BONUS == 50

ROOK_OPEN_FILE == 25

ROOK_SEMI_OPEN == 15

ROOK_SEVENTH_RANK == 20

CONNECTED_ROOKS == 15

KNIGHT_OUTPOST == 30

BAD_BISHOP_PENALTY == 20

FIANCHETTO_BONUS == 15

DOUBLED_PAWN == 15

ISOLATED_PAWN == 20

\* indexed by rank 0..7
PASSED_PAWN_BONUS == <<0, 10, 20, 40, 70, 120, 200, 0>>

PROTECTED_PASSED_PAWN == <<0, 5, 10, 20, 35, 60, 100, 0>>

PAWN_STORM_BONUS == 12

PAWN_SHIELD_BONUS == 15

OPEN_FILE_NEAR_KING == 20

CASTLING_RIGHTS_BONUS == 25

\* indexed by the attacker count 0..5
KING_ATTACK_WEIGHT == <<0, 0, 50, 75, 88, 94>>

SPACE_BONUS == 2

KNIGHT_MOBILITY == 4

BISHOP_MOBILITY == 3

ROOK_MOBILITY == 2

QUEEN_MOBILITY == 1

TEMPO_BONUS == 15

\* lines 65-195: the middlegame piece-square tables PAWN_PST_MG,
\* KNIGHT_PST_MG, BISHOP_PST_MG, ROOK_PST_MG, QUEEN_PST_MG, KING_PST_MG, in
\* the order of the piece types 1..6; entry i + 1 is index i of the array
PST_MG == <<
    <<  0,   0,   0,   0,   0,   0,   0,   0,
       90,  95,  90,  85,  85,  90,  95,  90,
       40,  50,  60,  75,  75,  60,  50,  40,
       30,  40,  55,  70,  70,  55,  40,  30,
       20,  30,  45,  60,  60,  45,  30,  20,
       15,  20,  25,  40,  40,  25,  20,  15,
       10,  15,  -5, -15, -15,  -5,  15,  10,
        0,   0,   0,   0,   0,   0,   0,   0>>,
    <<-70, -60, -50, -45, -45, -50, -60, -70,
      -60, -30,   0,  15,  15,   0, -30, -60,
      -50,   0,  25,  40,  40,  25,   0, -50,
      -45,  15,  35,  50,  50,  35,  15, -45,
      -45,  15,  35,  50,  50,  35,  15, -45,
      -50,   0,  30,  40,  40,  30,   0, -50,
      -60, -30,   0,  10,  10,   0, -30, -60,
      -70, -60, -50, -45, -45, -50, -60, -70>>,
    <<-30, -20, -20, -20, -20, -20, -20, -30,
      -20,   0,   5,  10,  10,   5,   0, -20,
      -20,   5,  20,  30,  30,  20,   5, -20,
      -20,  10,  25,  40,  40,  25,  10, -20,
      -20,  10,  30,  45,  45,  30,  10, -20,
      -20,  20,  25,  30,  30,  25,  20, -20,
      -20,   5,   0,   0,   0,   0,   5, -20,
      -30, -20, -20, -20, -20, -20, -20, -30>>,
    <<  0,   0,   5,  10,  10,   5,   0,   0,
        0,   0,   0,   0,   0,   0,   0,   0,
        0,   0,   0,   0,   0,   0,   0,   0,
        0,   0,   0,   0,   0,   0,   0,   0,
        0,   0,   0,   0,   0,   0,   0,   0,
        0,   0,   0,   0,   0,   0,   0,   0,
       15,  20,  20,  20,  20,  20,  20,  15,
        5,   5,   5,  10,  10,   5,   5,   5>>,
    <<-30, -20, -15, -10, -10, -15, -20, -30,
      -20, -10,   0,   5,   5,   0, -10, -20,
      -15,   0,   5,  10,  10,   5,   0, -15,
      -10,   5,  10,  15,  15,  10,   5, -10,
      -10,   5,  10,  15,  15,  10,   5, -10,
      -15,   0,   5,  10,  10,   5,   0, -15,
      -20, -10,   0,   0,   0,   0, -10, -20,
      -30, -20, -15, -10, -10, -15, -20, -30>>,
    <<-70, -60, -60, -65, -65, -60, -60, -70,
      -60, -50, -50, -55, -55, -50, -50, -60,
      -50, -40, -40, -45, -45, -40, -40, -50,
      -40, -30, -30, -35, -35, -30, -30, -40,
      -30, -20, -20, -25, -25, -20, -20, -30,
      -20, -10, -10, -15, -15, -10, -10, -20,
        0,  10,  10,   0,   0,  10,  10,   0,
       25,  35,  20,   0,   0,  20,  35,  25>> >>

\* lines 76-195: the endgame tables PAWN_PST_EG .. KING_PST_EG
PST_EG == <<
    <<  0,   0,   0,   0,   0,   0,   0,   0,
      130, 130, 130, 130, 130, 130, 130, 130,
       90,  95, 100, 105, 105, 100,  95,  90,
       60,  65,  70,  80,  80,  70,  65,  60,
       35,  40,  45,  55,  55,  45,  40,  35,
       20,  25,  30,  35,  35,  30,  25,  20,
       10,  15,  15,  15,  15,  15,  15,  10,
        0,   0,   0,   0,   0,   0,   0,   0>>,
    <<-70, -60, -50, -45, -45, -50, -60, -70,
      -60, -40, -30, -25, -25, -30, -40, -60,
      -50, -30,   0,  15,  15,   0, -30, -50,
      -45, -25,  15,  25,  25,  15, -25, -45,
      -45, -25,  15,  25,  25,  15, -25, -45,
      -50, -30,   0,  15,  15,   0, -30, -50,
      -60, -40, -30, -25, -25, -30, -40, -60,
      -70, -60, -50, -45, -45, -50, -60, -70>>,
    <<-30, -20, -20, -20, -20, -20, -20, -30,
      -20,   0,   5,   5,   5,   5,   0, -20,
      -20,   5,  15,  20,  20,  15,   5, -20,
      -20,   5,  20,  25,  25,  20,   5, -20,
      -20,   5,  20,  25,  25,  20,   5, -20,
      -20,   5,  15,  20,  20,  15,   5, -20,
      -20,   0,   5,   5,   5,   5,   0, -20,
      -30, -20, -20, -20, -20, -20, -20, -30>>,
    <<  0,   0,   0,   0,   0,   0,   0,   0,
        0,   0,   0,   0,   0,   0,   0,   0,
        0,   0,   0,   0,   0,   0,   0,   0,
        0,   0,   0,   0,   0,   0,   0,   0,
        0,   0,   0,   0,   0,   0,   0,   0,
        0,   0,   0,   0,   0,   0,   0,   0,
        0,   0,   0,   0,   0,   0,   0,   0,
        0,   0,   0,   0,   0,   0,   0,   0>>,
    <<-30, -20, -15, -10, -10, -15, -20, -30,
      -20, -10,   0,   5,   5,   0, -10, -20,
      -15,   0,  15,  20,  20,  15,   0, -15,
      -10,   5,  20,  25,  25,  20,   5, -10,
      -10,   5,  20,  25,  25,  20,   5, -10,
      -15,   0,  15,  20,  20,  15,   0, -15,
      -20, -10,   0,   5,   5,   0, -10, -20,
      -30, -20, -15, -10, -10, -15, -20, -30>>,
    <<-60, -50, -40, -30, -30, -40, -50, -60,
      -50, -40, -30, -20, -20, -30, -40, -50,
      -40, -30,  10,  20,  20,  10, -30, -40,
      -30, -20,  20,  30,  30,  20, -20, -30,
      -30, -20,  20,  30,  30,  20, -20, -30,
      -40, -30,  10,  20,  20,  10, -30, -40,
      -50, -40, -30, -20, -20, -30, -40, -50,
      -60, -50, -40, -30, -30, -40, -50, -60>> >>

(***************************************************************************)
(* eval.rs: Evaluator.  A loop that adds a term for each element of a      *)
(* bitboard is the sum of the terms over the set.                          *)
(***************************************************************************)
\* the sum of the values of a function with a finite domain
RECURSIVE SumOf(_)
SumOf(f) ==
    IF DOMAIN f = {} THEN 0
    ELSE LET x == CHOOSE y \in DOMAIN f : TRUE
         IN  f[x] + SumOf([y \in DOMAIN f \ {x} |-> f[y]])

\* the (piece_type, square) pairs the loops over board.pieces[color] visit
PiecesOf(b, color, kinds) ==
    UNION {{<<piece_type, sq>> : sq \in b.pieces[color][piece_type]} :
              piece_type \in kinds}

\* FILE_A << file
FileMask(file) == {sq \in Squares : FileOf(sq) = file}

\* the match on piece_type of the attack set of a piece on a square; the
\* pawn entry is the table of the given color
AttacksFrom(b, piece_type, color, square) ==
    CASE piece_type = Pawn -> pawn_attacks[color][square]
      [] piece_type = Knight -> knight_attacks[square]
      [] piece_type = Bishop -> get_bishop_attacks(square, b.all_pieces)
      [] piece_type = Rook -> get_rook_attacks(square, b.all_pieces)
      [] piece_type = Queen -> get_queen_attacks(square, b.all_pieces)
      [] piece_type = King -> king_attacks[square]
      [] OTHER -> {}

\* the sliding attacks of a bishop, rook or queen over an occupancy
SliderAttacks(piece_type, square, occ) ==
    CASE piece_type = Bishop -> get_bishop_attacks(square, occ)
      [] piece_type = Rook -> get_rook_attacks(square, occ)
      [] piece_type = Queen -> get_queen_attacks(square, occ)
      [] OTHER -> {}

find_least_valuable_attacker(b, square, color) ==
    LET kinds == {piece_type \in 1..6 :
                     AttacksFrom(b, piece_type, 1 - color, square)
                         \cap b.pieces[color][piece_type] # {}}
    IN  IF kinds = {} THEN None
        ELSE LET first == CHOOSE k \in kinds : \A j \in kinds : k <= j
             IN  lsb(AttacksFrom(b, first, 1 - color, square)
                         \cap b.pieces[color][first])

count_attackers(b, square, color) ==
    count_bits(pawn_attacks[1 - color][square] \cap b.pieces[color][Pawn])
    + count_bits(knight_attacks[square] \cap b.pieces[color][Knight])
    + count_bits(get_bishop_attacks(square, b.all_pieces)
                    \cap (b.pieces[color][Bishop] \cup b.pieces[color][Queen]))
    + count_bits(get_rook_attacks(square, b.all_pieces)
                    \cap (b.pieces[color][Rook] \cup b.pieces[color][Queen]))
    + count_bits(king_attacks[square] \cap b.pieces[color][King])

see_square(b, square, defender_color) ==
    LET attacker_color == 1 - defender_color
        attacker_sq == find_least_valuable_attacker(b, square, attacker_color)
    IN  IF piece_at(b, square) = None THEN 0
        ELSE IF attacker_sq = None THEN 0
        ELSE LET target_value == PIECE_VALUES[piece_at(b, square)[1][1]]
                 attacker_value == PIECE_VALUES[piece_at(b, attacker_sq[1])[1][1]]
                 gain == target_value
                 loss == Min(attacker_value, target_value)
             IN  IF count_attackers(b, square, defender_color) = 0
                 THEN -target_value
                 ELSE IF gain > loss + 100 THEN 0
                 ELSE IF gain < loss - 100 THEN gain - loss
                 ELSE 0

\* line 329: find_least_valuable_attacker reads the piece bitboards and
\* piece_at reads all_pieces and color_bb first; where they disagree
\* piece_at answers None for the attacker's square and the unwrap panics
see_square_panics(b, square, defender_color) ==
    LET attacker_sq == find_least_valuable_attacker(b, square, 1 - defender_color)
    IN  /\ piece_at(b, square) # None
        /\ attacker_sq # None
        /\ piece_at(b, attacker_sq[1]) = None

detect_pin_type(b, square, color) ==
    LET king_sq == get_king_square(b, color)
        enemy_color == 1 - color
        occ_without_piece == b.all_pieces \ {square}
        diagonal == b.pieces[enemy_color][Bishop] \cup b.pieces[enemy_color][Queen]
        straight == b.pieces[enemy_color][Rook] \cup b.pieces[enemy_color][Queen]
    IN  IF king_sq = None THEN "None"
        ELSE IF /\ square \in get_bishop_attacks(king_sq[1], b.all_pieces)
                /\ get_bishop_attacks(king_sq[1], occ_without_piece)
                       \cap diagonal # {}
        THEN "Absolute"
        ELSE IF /\ square \in get_rook_attacks(king_sq[1], b.all_pieces)
                /\ get_rook_attacks(king_sq[1], occ_without_piece)
                       \cap straight # {}
        THEN "Absolute"
        ELSE IF \E piece_type \in {Rook, Queen} :
                   \E target_sq \in b.pieces[color][piece_type] \ {square} :
                       /\ square \in SliderAttacks(piece_type, target_sq,
                                                   b.all_pieces)
                       /\ SliderAttacks(piece_type, target_sq, occ_without_piece)
                              \cap straight # {}
        THEN "Relative"
        ELSE "None"

is_piece_trapped(b, square, piece_type, color) ==
    IF piece_type \notin {Knight, Bishop, Rook, Queen} THEN FALSE
    ELSE LET safe_moves == AttacksFrom(b, piece_type, color, square)
                               \ b.color_bb[color]
         IN  count_bits({target \in safe_moves :
                            ~is_square_attacked(b, target, 1 - color)}) < 2

\* lines 507-525: the enemy pieces among the attacked squares that are worth
\* more than the attacker by over 100
Threatened(b, piece_type, threatened_pieces) ==
    {target \in threatened_pieces :
        /\ piece_at(b, target) # None
        /\ PIECE_VALUES[piece_at(b, target)[1][1]] > PIECE_VALUES[piece_type] + 100}

detect_threats(b, color) ==
    THREAT_BONUS * SumOf([p \in PiecesOf(b, color, 1..6) |->
        count_bits(Threatened(b, p[1],
            AttacksFrom(b, p[1], color, p[2]) \cap b.color_bb[1 - color]))])

detect_forks(b, color) ==
    FORK_BONUS * count_bits(
        {sq \in b.pieces[color][Knight] :
            count_bits(knight_attacks[sq] \cap b.color_bb[1 - color]) >= 2})
    + (FORK_BONUS \div 2) * count_bits(
        {sq \in b.pieces[color][Pawn] :
            count_bits(pawn_attacks[color][sq] \cap b.color_bb[1 - color]) >= 2})

\* lines 625-645: the piece behind the front piece on the target square
IsSkewer(b, piece_type, square, attacks, target, enemy_color) ==
    LET occ_without == b.all_pieces \ {target}
        behind == (SliderAttacks(piece_type, square, occ_without)
                       \cap b.color_bb[enemy_color]) \ attacks
    IN  /\ piece_at(b, target) # None
        /\ behind # {}
        /\ piece_at(b, lsb(behind)[1]) # None
        /\ PIECE_VALUES[piece_at(b, target)[1][1]]
               >= PIECE_VALUES[piece_at(b, lsb(behind)[1])[1][1]] + 200

\* lines 619-647: the skewers of one bishop or queen with its attack set
SkewersOf(b, piece_type, square, attacks, enemy_color) ==
    count_bits({target \in attacks \cap b.color_bb[enemy_color] :
                   IsSkewer(b, piece_type, square, attacks, target, enemy_color)})

detect_skewers(b, color) ==
    SKEWER_BONUS * SumOf([p \in PiecesOf(b, color, {Bishop, Queen}) |->
        SkewersOf(b, p[1], p[2], AttacksFrom(b, p[1], color, p[2]), 1 - color)])

\* lines 689-704: the own pieces on the attack line of one slider whose
\* removal lets the slider reach a new enemy piece; one count for each piece
\* type the square is listed under
DiscoveredBy(b, color, attacker_type, attacker_sq, attacks) ==
    count_bits({p \in PiecesOf(b, color, 1..6) :
        /\ p[2] # attacker_sq
        /\ p[2] \in attacks
        /\ (SliderAttacks(attacker_type, attacker_sq, b.all_pieces \ {p[2]})
                \cap b.color_bb[1 - color]) \ attacks # {}})

detect_discovered_attacks(b, color) ==
    DISCOVERED_ATTACK_BONUS
        * SumOf([a \in PiecesOf(b, color, {Bishop, Rook, Queen}) |->
              DiscoveredBy(b, color, a[1], a[2],
                           SliderAttacks(a[1], a[2], b.all_pieces))])

\* lines 263-286: the terms of one piece of tactical_safety, before the sign
TacticalPiece(b, color, piece_type, square) ==
    LET see_score == see_square(b, square, color)
        pin_type == detect_pin_type(b, square, color)
    IN  (IF see_score < 0 THEN see_score ELSE 0)
        + (CASE pin_type = "Absolute" -> -ABSOLUTE_PIN_PENALTY
             [] pin_type = "Relative" -> -RELATIVE_PIN_PENALTY
             [] OTHER -> 0)
        + (IF is_piece_trapped(b, square, piece_type, color)
           THEN -TRAPPED_PIECE ELSE 0)

\* lines 250-301: the body of the loop over the colors, before the sign
TacticalSide(b, color) ==
    SumOf([p \in PiecesOf(b, color, 1..5) |-> TacticalPiece(b, color, p[1], p[2])])
    + detect_threats(b, color)
    + detect_forks(b, color)
    + detect_skewers(b, color)
    + detect_discovered_attacks(b, color)

tactical_safety(b, phase) ==
    div_trunc((TacticalSide(b, 0) - TacticalSide(b, 1)) * (12 + phase), 24)

\* lines 256-264: tactical_safety panics in the see_square of one of the
\* pieces it walks
tactical_safety_panics(b) ==
    \E color \in 0..1 :
        \E p \in PiecesOf(b, color, 1..5) : see_square_panics(b, p[2], color)

game_phase(b) ==
    Min(count_bits(b.pieces[0][Knight]) + count_bits(b.pieces[1][Knight])
        + count_bits(b.pieces[0][Bishop]) + count_bits(b.pieces[1][Bishop])
        + count_bits(b.pieces[0][Rook]) * 2 + count_bits(b.pieces[1][Rook]) * 2
        + count_bits(b.pieces[0][Queen]) * 4 + count_bits(b.pieces[1][Queen]) * 4,
        24)

tapered_eval(mg_score, eg_score, phase) ==
    div_trunc(mg_score * phase + eg_score * (24 - phase), 24)

\* square ^ 56 for Black: the rank is mirrored
PstSquare(color, square) ==
    IF color = 0 THEN square ELSE (7 - RankOf(square)) * 8 + FileOf(square)

\* lines 742-774 for one of the two tables: material and bonus of one color
MaterialSide(b, color, table) ==
    SumOf([p \in PiecesOf(b, color, 1..6) |->
              PIECE_VALUES[p[1]] + table[p[1]][PstSquare(color, p[2]) + 1]])

\* the pair (mg_score, eg_score)
material_and_pst(b) ==
    <<MaterialSide(b, 0, PST_MG) - MaterialSide(b, 1, PST_MG),
      MaterialSide(b, 0, PST_EG) - MaterialSide(b, 1, PST_EG)>>

pawn_storms(b, phase) ==
    LET wk == get_king_square(b, White)
        bk == get_king_square(b, Black)
    IN  IF phase < 12 THEN 0
        ELSE IF wk = None \/ bk = None THEN 0
        ELSE SumOf([sq \in {s \in b.pieces[0][Pawn] :
                               /\ Abs(FileOf(s) - FileOf(bk[1])) <= 1
                               /\ RankOf(s) >= 4} |->
                       PAWN_STORM_BONUS * (RankOf(sq) - 3)])
             - SumOf([sq \in {s \in b.pieces[1][Pawn] :
                                 /\ Abs(FileOf(s) - FileOf(wk[1])) <= 1
                                 /\ RankOf(s) <= 3} |->
                         PAWN_STORM_BONUS * (4 - RankOf(sq))])

\* lines 902-911 and 950-959: the squares ahead of a pawn on its file and
\* the two files beside it
AheadMask(color, square) ==
    {s \in Squares :
        /\ Abs(FileOf(s) - FileOf(square)) <= 1
        /\ IF color = 0 THEN RankOf(s) > RankOf(square)
           ELSE RankOf(s) < RankOf(square)}

\* lines 917-918 and 964-965: 1u64 << (square - 9) and the like.  The shift
\* amount is a u8; where it leaves 0..63 the build without overflow checks
\* wraps it and takes it modulo 64
ProtectionMask(color, square) ==
    IF color = 0
    THEN (IF FileOf(square) > 0 THEN {(square - 9) % 64} ELSE {})
         \cup (IF FileOf(square) < 7 THEN {(square - 7) % 64} ELSE {})
    ELSE (IF FileOf(square) > 0 THEN {(square + 7) % 64} ELSE {})
         \cup (IF FileOf(square) < 7 THEN {(square + 9) % 64} ELSE {})

\* the king distance terms of a passed pawn of a color
KingProximity(b, color, square, phase) ==
    LET own == get_king_square(b, color)
        enemy == get_king_square(b, 1 - color)
        dist(k) == Abs(RankOf(k) - RankOf(square)) + Abs(FileOf(k) - FileOf(square))
    IN  (IF own # None
         THEN div_trunc((8 - dist(own[1])) * (24 - phase), 8) ELSE 0)
        - (IF enemy # None
           THEN div_trunc((8 - dist(enemy[1])) * (24 - phase), 12) ELSE 0)

\* the bonus of one passed pawn
PassedBonus(b, color, square, phase) ==
    LET rank == IF color = 0 THEN RankOf(square) ELSE 7 - RankOf(square)
    IN  PASSED_PAWN_BONUS[rank + 1]
        + (IF b.pieces[color][Pawn] \cap ProtectionMask(color, square) # {}
           THEN PROTECTED_PASSED_PAWN[rank + 1] ELSE 0)
        + KingProximity(b, color, square, phase)

IsPassed(b, color, square) ==
    b.pieces[1 - color][Pawn] \cap AheadMask(color, square) = {}

passed_pawn_evaluation(b, phase) ==
    SumOf([sq \in {s \in b.pieces[0][Pawn] : IsPassed(b, 0, s)} |->
              PassedBonus(b, 0, sq, phase)])
    - SumOf([sq \in {s \in b.pieces[1][Pawn] : IsPassed(b, 1, s)} |->
                PassedBonus(b, 1, sq, phase)])

count_king_zone_attackers(b, king_sq, by_color) ==
    count_bits({p \in PiecesOf(b, by_color, 2..5) :
                   AttacksFrom(b, p[1], by_color, p[2])
                       \cap (king_attacks[king_sq] \cup {king_sq}) # {}})

\* lines 996-1051 and 1056-1105 (and again 1610-1665, 1670-1719): the safety
\* of the king of a color
KingSafety(b, color, phase) ==
    LET king_sq == get_king_square(b, color)[1]
        king_file == FileOf(king_sq)
        king_rank == RankOf(king_sq)
        pawns == b.pieces[color][Pawn]
        files == {f \in {king_file - 1, king_file, king_file + 1} : f >= 0 /\ f < 8}
        drs == IF color = 0 THEN {1, 2} ELSE {-2, -1}
        shield == {<<f, dr>> \in files \X drs :
                      king_rank + dr < 8 /\ king_rank + dr >= 0}
        attackers == count_king_zone_attackers(b, king_sq, 1 - color)
        open == {f \in files : pawns \cap FileMask(f) = {}}
    IN  SumOf([s \in shield |->
                  IF get_bit(pawns, (king_rank + s[2]) * 8 + s[1])
                  THEN PAWN_SHIELD_BONUS * (3 - Abs(s[2]))
                  ELSE -(PAWN_SHIELD_BONUS \div 2)])
        - OPEN_FILE_NEAR_KING * count_bits(open)
        - OPEN_FILE_NEAR_KING * count_bits(
              {f \in open : (b.pieces[1 - color][Rook]
                                \cup b.pieces[1 - color][Queen])
                               \cap FileMask(f) # {}})
        - (IF attackers > 0 THEN KING_ATTACK_WEIGHT[Min(attackers, 5) + 1] ELSE 0)
        - (IF /\ phase > 18 /\ king_file >= 2 /\ king_file <= 5
              /\ (IF color = 0 THEN king_rank <= 2 ELSE king_rank >= 5)
           THEN 30 ELSE 0)
        + (IF (b.castling_rights \div (IF color = 0 THEN 1 ELSE 4)) % 4 # 0
           THEN CASTLING_RIGHTS_BONUS ELSE 0)

\* the body that pawn_chains and king_safety_advanced share
KingSafetyScore(b, phase) ==
    (IF get_king_square(b, White) # None
     THEN div_trunc(KingSafety(b, White, phase) * phase, 24) ELSE 0)
    - (IF get_king_square(b, Black) # None
       THEN div_trunc(KingSafety(b, Black, phase) * phase, 24) ELSE 0)

pawn_chains(b, phase) == KingSafetyScore(b, phase)

king_safety_advanced(b, phase) ==
    IF phase < 10 THEN 0 ELSE KingSafetyScore(b, phase)

pawn_structure(b, phase) ==
    LET white_pawns == b.pieces[0][Pawn]
        black_pawns == b.pieces[1][Pawn]
        adjacent_files(file) ==
            (IF file > 0 THEN FileMask(file - 1) ELSE {})
            \cup (IF file < 7 THEN FileMask(file + 1) ELSE {})
        doubled(pawns, file) ==
            IF count_bits(pawns \cap FileMask(file)) > 1
            THEN DOUBLED_PAWN * (count_bits(pawns \cap FileMask(file)) - 1)
            ELSE 0
        isolated(pawns, file) ==
            IF pawns \cap FileMask(file) # {} /\ pawns \cap adjacent_files(file) = {}
            THEN ISOLATED_PAWN ELSE 0
    IN  SumOf([file \in 0..7 |->
                  doubled(black_pawns, file) - doubled(white_pawns, file)
                  + isolated(black_pawns, file) - isolated(white_pawns, file)])
        + passed_pawn_evaluation(b, phase)
        + pawn_chains(b, phase)
        + pawn_storms(b, phase)

\* lines 1153-1192 and 1194-1228: the rooks of one color, before the sign
RookSide(b, color) ==
    LET rooks == b.pieces[color][Rook]
        own_pawns == b.pieces[color][Pawn]
        enemy_pawns == b.pieces[1 - color][Pawn]
        enemy_king == get_king_square(b, 1 - color)
        files == {FileOf(sq) : sq \in rooks}
    IN  SumOf([sq \in rooks |->
            (IF (own_pawns \cup enemy_pawns) \cap FileMask(FileOf(sq)) = {}
             THEN ROOK_OPEN_FILE
             ELSE IF own_pawns \cap FileMask(FileOf(sq)) = {}
             THEN ROOK_SEMI_OPEN ELSE 0)
            + (IF RankOf(sq) = (IF color = 0 THEN 6 ELSE 1)
               THEN ROOK_SEVENTH_RANK
                    + (IF /\ enemy_king # None
                          /\ RankOf(enemy_king[1]) = (IF color = 0 THEN 7 ELSE 0)
                       THEN ROOK_SEVENTH_RANK ELSE 0)
               ELSE 0)])
        + (IF /\ count_bits(rooks) = 2
              /\ \E f \in files : \E g \in files : Abs(f - g) = 1
           THEN CONNECTED_ROOKS ELSE 0)

rook_evaluation(b) == RookSide(b, 0) - RookSide(b, 1)

fianchetto_patterns(b) ==
    LET white_bishops == b.pieces[0][Bishop]
        white_pawns == b.pieces[0][Pawn]
        black_bishops == b.pieces[1][Bishop]
        black_pawns == b.pieces[1][Pawn]
    IN  (IF /\ get_bit(white_bishops, 6)
            /\ (get_bit(white_pawns, 14) \/ get_bit(white_pawns, 15))
         THEN FIANCHETTO_BONUS ELSE 0)
        + (IF /\ get_bit(white_bishops, 1)
              /\ (get_bit(white_pawns, 9) \/ get_bit(white_pawns, 10))
           THEN FIANCHETTO_BONUS ELSE 0)
        - (IF /\ get_bit(black_bishops, 62)
              /\ (get_bit(black_pawns, 54) \/ get_bit(black_pawns, 55))
           THEN FIANCHETTO_BONUS ELSE 0)
        - (IF /\ get_bit(black_bishops, 57)
              /\ (get_bit(black_pawns, 49) \/ get_bit(black_pawns, 50))
           THEN FIANCHETTO_BONUS ELSE 0)

\* (square / 8 + square % 8) % 2 == 0
IsLightSquare(square) == (RankOf(square) + FileOf(square)) % 2 = 0

\* lines 1308-1333 and 1335-1360: the bishops of a color with four or more
\* own pawns on their square color on or beyond the fourth rank of the color
BadBishops(b, color) ==
    {sq \in b.pieces[color][Bishop] :
        count_bits({p \in b.pieces[color][Pawn] :
                       /\ IsLightSquare(p) = IsLightSquare(sq)
                       /\ IF color = 0 THEN RankOf(p) >= 3 ELSE RankOf(p) <= 4})
            >= 4}

bad_bishop_penalty(b) ==
    BAD_BISHOP_PENALTY * count_bits(BadBishops(b, 1))
    - BAD_BISHOP_PENALTY * count_bits(BadBishops(b, 0))

bishop_evaluation(b) ==
    (IF count_bits(b.pieces[0][Bishop]) >= 2 THEN BISHOP_PAIR_BONUS ELSE 0)
    - (IF count_bits(b.pieces[1][Bishop]) >= 2 THEN BISHOP_PAIR_BONUS ELSE 0)
    + bad_bishop_penalty(b)
    + fianchetto_patterns(b)

\* lines 1372-1410 and 1413-1452: the knights of one color, before the sign
KnightSide(b, color) ==
    LET own_pawns == b.pieces[color][Pawn]
        enemy_pawns == b.pieces[1 - color][Pawn]
        protected(sq) ==
            IF color = 0
            THEN \/ FileOf(sq) > 0 /\ sq >= 9 /\ get_bit(own_pawns, sq - 9)
                 \/ FileOf(sq) < 7 /\ sq >= 7 /\ get_bit(own_pawns, sq - 7)
            ELSE \/ FileOf(sq) > 0 /\ sq < 56 /\ get_bit(own_pawns, sq + 7)
                 \/ FileOf(sq) < 7 /\ sq < 56 /\ get_bit(own_pawns, sq + 9)
        can_be_attacked(sq) ==
            \/ FileOf(sq) > 0 /\ enemy_pawns \cap FileMask(FileOf(sq) - 1) # {}
            \/ FileOf(sq) < 7 /\ enemy_pawns \cap FileMask(FileOf(sq) + 1) # {}
        outposts == {sq \in b.pieces[color][Knight] :
                        /\ IF color = 0 THEN RankOf(sq) >= 4 ELSE RankOf(sq) <= 3
                        /\ protected(sq)}
    IN  KNIGHT_OUTPOST * count_bits(outposts)
        + (KNIGHT_OUTPOST \div 2)
              * count_bits({sq \in outposts : ~can_be_attacked(sq)})

knight_evaluation(b) == KnightSide(b, 0) - KnightSide(b, 1)

tempo_bonus(b) == IF b.side_to_move = White THEN TEMPO_BONUS ELSE -TEMPO_BONUS

build_attack_map(b, color) ==
    UNION {AttacksFrom(b, p[1], color, p[2]) : p \in PiecesOf(b, color, 1..5)}
    \cup (IF b.pieces[color][King] # {}
          THEN king_attacks[lsb(b.pieces[color][King])[1]] ELSE {})

\* lines 1479-1560: the safe mobility of one color, given the attack map of
\* the other
MobilitySide(b, color, enemy_attacks) ==
    LET weight == <<0, KNIGHT_MOBILITY, BISHOP_MOBILITY, ROOK_MOBILITY,
                    QUEEN_MOBILITY>>
    IN  SumOf([p \in PiecesOf(b, color, 2..5) |->
                  count_bits((AttacksFrom(b, p[1], color, p[2])
                                  \ b.color_bb[color]) \ enemy_attacks)
                      * weight[p[1]]])

piece_mobility_safe(b, phase) ==
    div_trunc((MobilitySide(b, 0, build_attack_map(b, 1))
               - MobilitySide(b, 1, build_attack_map(b, 0))) * phase, 24)

\* 0x0000001818000000: d4, e4, d5, e5
CENTER == {27, 28, 35, 36}

\* 0x00003C3C3C3C0000: the files c to f of the ranks 3 to 6
EXTENDED_CENTER ==
    {sq \in Squares : /\ RankOf(sq) >= 2 /\ RankOf(sq) <= 5
                      /\ FileOf(sq) >= 2 /\ FileOf(sq) <= 5}

\* lines 1579-1591, on the two attack maps
SpaceScore(white_control, black_control) ==
    (count_bits(white_control \cap CENTER) - count_bits(black_control \cap CENTER))
        * SPACE_BONUS * 2
    + (count_bits(white_control \cap EXTENDED_CENTER)
       - count_bits(black_control \cap EXTENDED_CENTER)) * SPACE_BONUS

space_evaluation(b, phase) ==
    IF phase < 12 THEN 0
    ELSE div_trunc(SpaceScore(build_attack_map(b, 0), build_attack_map(b, 1))
                       * phase, 24)

\* lines 214-231: the score from White's side for a phase
TaperedScore(scores, phase) == tapered_eval(scores[1], scores[2], phase)

EvalScore(b, phase) ==
    TaperedScore(material_and_pst(b), phase)
    + tactical_safety(b, phase)
    + pawn_structure(b, phase)
    + piece_mobility_safe(b, phase)
    + king_safety_advanced(b, phase)
    + space_evaluation(b, phase)
    + rook_evaluation(b)
    + bishop_evaluation(b)
    + knight_evaluation(b)
    + tempo_bonus(b)

\* lines 233-238: the score from the side to move
FromSideToMove(b, score) == IF b.side_to_move = White THEN score ELSE -score

evaluate(b) ==
    IF b.halfmove_clock >= 100 THEN 0
    ELSE FromSideToMove(b, EvalScore(b, game_phase(b)))

\* lines 210-221: past the draw by the halfmove clock evaluate calls
\* tactical_safety, and panics in every build where that panics
evaluate_panics(b) ==
    /\ b.halfmove_clock < 100
    /\ tactical_safety_panics(b)

\* lines 917-918 and 964-965: evaluate shifts by square - 9, square - 7,
\* square + 7 or square + 9 for a passed pawn; a build with overflow checks
\* panics where that amount leaves 0..63
evaluate_overflows(b) ==
    /\ b.halfmove_clock < 100
    /\ \/ \E sq \in b.pieces[0][Pawn] :
             /\ IsPassed(b, 0, sq)
             /\ \/ FileOf(sq) > 0 /\ sq < 9
                \/ FileOf(sq) < 7 /\ sq < 7
       \/ \E sq \in b.pieces[1][Pawn] :
             /\ IsPassed(b, 1, sq)
             /\ \/ FileOf(sq) > 0 /\ sq + 7 > 63
                \/ FileOf(sq) < 7 /\ sq + 9 > 63

(***************************************************************************)
(* search.rs: quiescence.  The result is the score, the nodes counted,     *)
(* whether a build with overflow checks panics in one of the evaluations   *)
(* or in the generation of the captures, and whether every build panics in *)
(* one of the evaluations (the call then returns nothing: score and nodes  *)
(* of such a result are not read).                                         *)
(***************************************************************************)
QResult(score, nodes, overflows) ==
    [score |-> score, nodes |-> nodes, overflows |-> overflows, panics |-> FALSE]

QPanic == [score |-> 0, nodes |-> 0, overflows |-> FALSE, panics |-> TRUE]

RECURSIVE quiescence(_, _, _, _)
RECURSIVE QuiescenceLoop(_, _, _, _, _, _, _, _)
\* lines 777-789: one capture of the loop, searched with result r
QuiescenceNext(b, captures, i, alpha, beta, depth, nodes, overflows, r) ==
    IF r.panics THEN QPanic
    ELSE IF -r.score >= beta
    THEN QResult(beta, nodes + r.nodes, overflows \/ r.overflows)
    ELSE QuiescenceLoop(b, captures, i + 1, Max(alpha, -r.score), beta, depth,
                        nodes + r.nodes, overflows \/ r.overflows)

\* lines 771-791: the loop over the ordered captures from index i
QuiescenceLoop(b, captures, i, alpha, beta, depth, nodes, overflows) ==
    IF i > Len(captures) THEN QResult(alpha, nodes, overflows)
    ELSE IF depth < -4 /\ ~see_capture(b, captures[i], 0)
    THEN QuiescenceLoop(b, captures, i + 1, alpha, beta, depth, nodes, overflows)
    ELSE QuiescenceNext(b, captures, i, alpha, beta, depth, nodes, overflows,
             quiescence(make_move(b, captures[i]), -beta, -alpha, depth - 1))

\* lines 759-791: alpha raised to the stand pat, then the captures
QuiescenceCaptures(b, alpha, beta, depth, stand_pat, overflows, captures) ==
    IF captures = <<>> THEN QResult(stand_pat, 1, overflows)
    ELSE QuiescenceLoop(b, order_captures_internal(b, captures), 1,
                        Max(alpha, stand_pat), beta, depth, 1, overflows)

\* lines 743-791: quiescence from the static evaluation on
QuiescenceStand(b, alpha, beta, depth, stand_pat, overflows) ==
    IF depth < -10 THEN QResult(stand_pat, 1, overflows)
    ELSE IF stand_pat >= beta THEN QResult(beta, 1, overflows)
    ELSE IF stand_pat + 950 < alpha THEN QResult(alpha, 1, overflows)
    ELSE QuiescenceCaptures(b, alpha, beta, depth, stand_pat,
                            overflows \/ generate_legal_moves_overflows(b),
                            generate_captures(b))

\* lines 743-747: both branches evaluate the board first
quiescence(b, alpha, beta, depth) ==
    IF evaluate_panics(b) THEN QPanic
    ELSE QuiescenceStand(b, alpha, beta, depth, evaluate(b), evaluate_overflows(b))

(***************************************************************************)
(* movegen.rs: Move::to_uci; opening_book.rs: probe_book                   *)
(***************************************************************************)
to_uci(mv) ==
    square_name(mv.from) \o square_name(mv.to)
    \o (IF mv.flags >= KNIGHT_PROMOTION
        THEN (CASE mv.flags \in {KNIGHT_PROMOTION, KNIGHT_PROMO_CAPTURE} -> <<"n">>
                [] mv.flags \in {BISHOP_PROMOTION, BISHOP_PROMO_CAPTURE} -> <<"b">>
                [] mv.flags \in {ROOK_PROMOTION, ROOK_PROMO_CAPTURE} -> <<"r">>
                [] OTHER -> <<"q">>)
        ELSE <<>>)

\* "rnbqkbnr/pppppppp/8/8/4P3/8/PPPP1PPP/RNBQKBNR b KQkq e3 0 1"
AfterE4Fen ==
    <<"r", "n", "b", "q", "k", "b", "n", "r", "/", "p", "p", "p", "p", "p", "p", "p",
      "p", "/", "8", "/", "8", "/", "4", "P", "3", "/", "8", "/", "P", "P", "P", "P",
      "1", "P", "P", "P", "/", "R", "N", "B", "Q", "K", "B", "N", "R", " ", "b", " ",
      "K", "Q", "k", "q", " ", "e", "3", " ", "0", " ", "1">>

\* build_opening_book: the positions of the book in the order they are added,
\* each with its (move, weight) list.  No FEN is added twice.
OPENING_BOOK == <<
    \* "rnbqkbnr/pppppppp/8/8/8/8/PPPPPPPP/RNBQKBNR w KQkq - 0 1"
    [fen |->
        <<"r", "n", "b", "q", "k", "b", "n", "r", "/", "p", "p", "p", "p", "p",
          "p", "p", "p", "/", "8", "/", "8", "/", "8", "/", "8", "/", "P", "P",
          "P", "P", "P", "P", "P", "P", "/", "R", "N", "B", "Q", "K", "B", "N",
          "R", " ", "w", " ", "K", "Q", "k", "q", " ", "-", " ", "0", " ", "1">>,
     moves |-> <<<<<<"e", "2", "e", "4">>, 40>>,
                <<<<"d", "2", "d", "4">>, 35>>,
                <<<<"c", "2", "c", "4">>, 15>>,
                <<<<"g", "1", "f", "3">>, 8>>,
                <<<<"g", "2", "g", "3">>, 2>>>>],
    \* "rnbqkbnr/pppppppp/8/8/4P3/8/PPPP1PPP/RNBQKBNR b KQkq e3 0 1"
    [fen |->
        <<"r", "n", "b", "q", "k", "b", "n", "r", "/", "p", "p", "p", "p", "p",
          "p", "p", "p", "/", "8", "/", "8", "/", "4", "P", "3", "/", "8", "/",
          "P", "P", "P", "P", "1", "P", "P", "P", "/", "R", "N", "B", "Q", "K",
          "B", "N", "R", " ", "b", " ", "K", "Q", "k", "q", " ", "e", "3", " ",
          "0", " ", "1">>,
     moves |-> <<<<<<"e", "7", "e", "5">>, 45>>,
                <<<<"c", "7", "c", "5">>, 30>>,
                <<<<"e", "7", "e", "6">>, 15>>,
                <<<<"c", "7", "c", "6">>, 8>>,
                <<<<"d", "7", "d", "5">>, 2>>>>],
    \* "rnbqkbnr/pppp1ppp/8/4p3/4P3/8/PPPP1PPP/RNBQKBNR w KQkq e6 0 2"
    [fen |->
        <<"r", "n", "b", "q", "k", "b", "n", "r", "/", "p", "p", "p", "p", "1",
          "p", "p", "p", "/", "8", "/", "4", "p", "3", "/", "4", "P", "3", "/",
          "8", "/", "P", "P", "P", "P", "1", "P", "P", "P", "/", "R", "N", "B",
          "Q", "K", "B", "N", "R", " ", "w", " ", "K", "Q", "k", "q", " ", "e",
          "6", " ", "0", " ", "2">>,
     moves |-> <<<<<<"g", "1", "f", "3">>, 60>>,
                <<<<"f", "2", "f", "4">>, 20>>,
                <<<<"b", "1", "c", "3">>, 15>>,
                <<<<"f", "1", "c", "4">>, 5>>>>],
    \* "rnbqkbnr/pppp1ppp/8/4p3/4P3/5N2/PPPP1PPP/RNBQKB1R b KQkq - 1 2"
    [fen |->
        <<"r", "n", "b", "q", "k", "b", "n", "r", "/", "p", "p", "p", "p", "1",
          "p", "p", "p", "/", "8", "/", "4", "p", "3", "/", "4", "P", "3", "/",
          "5", "N", "2", "/", "P", "P", "P", "P", "1", "P", "P", "P", "/", "R",
          "N", "B", "Q", "K", "B", "1", "R", " ", "b", " ", "K", "Q", "k", "q",
          " ", "-", " ", "1", " ", "2">>,
     moves |-> <<<<<<"b", "8", "c", "6">>, 70>>,
                <<<<"g", "8", "f", "6">>, 25>>,
                <<<<"d", "7", "d", "6">>, 5>>>>],
    \* "r1bqkbnr/pppp1ppp/2n5/4p3/4P3/5N2/PPPP1PPP/RNBQKB1R w KQkq - 2 3"
    [fen |->
        <<"r", "1", "b", "q", "k", "b", "n", "r", "/", "p", "p", "p", "p", "1",
          "p", "p", "p", "/", "2", "n", "5", "/", "4", "p", "3", "/", "4", "P",
          "3", "/", "5", "N", "2", "/", "P", "P", "P", "P", "1", "P", "P", "P",
          "/", "R", "N", "B", "Q", "K", "B", "1", "R", " ", "w", " ", "K", "Q",
          "k", "q", " ", "-", " ", "2", " ", "3">>,
     moves |-> <<<<<<"f", "1", "b", "5">>, 70>>,
                <<<<"f", "1", "c", "4">>, 20>>,
                <<<<"d", "2", "d", "4">>, 8>>,
                <<<<"b", "1", "c", "3">>, 2>>>>],
    \* "r1bqkbnr/pppp1ppp/2n5/1B2p3/4P3/5N2/PPPP1PPP/RNBQK2R b KQkq - 3 3"
    [fen |->
        <<"r", "1", "b", "q", "k", "b", "n", "r", "/", "p", "p", "p", "p", "1",
          "p", "p", "p", "/", "2", "n", "5", "/", "1", "B", "2", "p", "3", "/",
          "4", "P", "3", "/", "5", "N", "2", "/", "P", "P", "P", "P", "1", "P",
          "P", "P", "/", "R", "N", "B", "Q", "K", "2", "R", " ", "b", " ", "K",
          "Q", "k", "q", " ", "-", " ", "3", " ", "3">>,
     moves |-> <<<<<<"a", "7", "a", "6">>, 60>>,
                <<<<"g", "8", "f", "6">>, 25>>,
                <<<<"f", "7", "f", "5">>, 10>>,
                <<<<"d", "7", "d", "6">>, 5>>>>],
    \* "r1bqkbnr/1ppp1ppp/p1n5/1B2p3/4P3/5N2/PPPP1PPP/RNBQK2R w KQkq - 0 4"
    [fen |->
        <<"r", "1", "b", "q", "k", "b", "n", "r", "/", "1", "p", "p", "p", "1",
          "p", "p", "p", "/", "p", "1", "n", "5", "/", "1", "B", "2", "p", "3",
          "/", "4", "P", "3", "/", "5", "N", "2", "/", "P", "P", "P", "P", "1",
          "P", "P", "P", "/", "R", "N", "B", "Q", "K", "2", "R", " ", "w", " ",
          "K", "Q", "k", "q", " ", "-", " ", "0", " ", "4">>,
     moves |-> <<<<<<"b", "5", "a", "4">>, 90>>,
                <<<<"b", "5", "c", "6">>, 10>>>>],
    \* "r1bqkbnr/1ppp1ppp/p1n5/4p3/B3P3/5N2/PPPP1PPP/RNBQK2R b KQkq - 1 4"
    [fen |->
        <<"r", "1", "b", "q", "k", "b", "n", "r", "/", "1", "p", "p", "p", "1",
          "p", "p", "p", "/", "p", "1", "n", "5", "/", "4", "p", "3", "/", "B",
          "3", "P", "3", "/", "5", "N", "2", "/", "P", "P", "P", "P", "1", "P",
          "P", "P", "/", "R", "N", "B", "Q", "K", "2", "R", " ", "b", " ", "K",
          "Q", "k", "q", " ", "-", " ", "1", " ", "4">>,
     moves |-> <<<<<<"g", "8", "f", "6">>, 80>>,
                <<<<"f", "7", "f", "5">>, 15>>,
                <<<<"d", "7", "d", "6">>, 5>>>>],
    \* "r1bqkb1r/1ppp1ppp/p1n2n2/4p3/B3P3/5N2/PPPP1PPP/RNBQK2R w KQkq - 2 5"
    [fen |->
        <<"r", "1", "b", "q", "k", "b", "1", "r", "/", "1", "p", "p", "p", "1",
          "p", "p", "p", "/", "p", "1", "n", "2", "n", "2", "/", "4", "p", "3",
          "/", "B", "3", "P", "3", "/", "5", "N", "2", "/", "P", "P", "P", "P",
          "1", "P", "P", "P", "/", "R", "N", "B", "Q", "K", "2", "R", " ", "w",
          " ", "K", "Q", "k", "q", " ", "-", " ", "2", " ", "5">>,
     moves |-> <<<<<<"e", "1", "g", "1">>, 85>>,
                <<<<"d", "2", "d", "3">>, 10>>,
                <<<<"b", "1", "c", "3">>, 5>>>>],
    \* "r1bqkbnr/pppp1ppp/2n5/4p3/2B1P3/5N2/PPPP1PPP/RNBQK2R b KQkq - 3 3"
    [fen |->
        <<"r", "1", "b", "q", "k", "b", "n", "r", "/", "p", "p", "p", "p", "1",
          "p", "p", "p", "/", "2", "n", "5", "/", "4", "p", "3", "/", "2", "B",
          "1", "P", "3", "/", "5", "N", "2", "/", "P", "P", "P", "P", "1", "P",
          "P", "P", "/", "R", "N", "B", "Q", "K", "2", "R", " ", "b", " ", "K",
          "Q", "k", "q", " ", "-", " ", "3", " ", "3">>,
     moves |-> <<<<<<"f", "8", "c", "5">>, 50>>,
                <<<<"g", "8", "f", "6">>, 40>>,
                <<<<"f", "8", "e", "7">>, 10>>>>],
    \* "r1bqk1nr/pppp1ppp/2n5/2b1p3/2B1P3/5N2/PPPP1PPP/RNBQK2R w KQkq - 4 4"
    [fen |->
        <<"r", "1", "b", "q", "k", "1", "n", "r", "/", "p", "p", "p", "p", "1",
          "p", "p", "p", "/", "2", "n", "5", "/", "2", "b", "1", "p", "3", "/",
          "2", "B", "1", "P", "3", "/", "5", "N", "2", "/", "P", "P", "P", "P",
          "1", "P", "P", "P", "/", "R", "N", "B", "Q", "K", "2", "R", " ", "w",
          " ", "K", "Q", "k", "q", " ", "-", " ", "4", " ", "4">>,
     moves |-> <<<<<<"c", "2", "c", "3">>, 60>>,
                <<<<"d", "2", "d", "3">>, 25>>,
                <<<<"b", "2", "b", "4">>, 10>>,
                <<<<"e", "1", "g", "1">>, 5>>>>],
    \* "rnbqkbnr/pp1ppppp/8/2p5/4P3/8/PPPP1PPP/RNBQKBNR w KQkq c6 0 2"
    [fen |->
        <<"r", "n", "b", "q", "k", "b", "n", "r", "/", "p", "p", "1", "p", "p",
          "p", "p", "p", "/", "8", "/", "2", "p", "5", "/", "4", "P", "3", "/",
          "8", "/", "P", "P", "P", "P", "1", "P", "P", "P", "/", "R", "N", "B",
          "Q", "K", "B", "N", "R", " ", "w", " ", "K", "Q", "k", "q", " ", "c",
          "6", " ", "0", " ", "2">>,
     moves |-> <<<<<<"g", "1", "f", "3">>, 85>>,
                <<<<"b", "1", "c", "3">>, 10>>,
                <<<<"c", "2", "c", "3">>, 5>>>>],
    \* "rnbqkbnr/pp1ppppp/8/2p5/4P3/5N2/PPPP1PPP/RNBQKB1R b KQkq - 1 2"
    [fen |->
        <<"r", "n", "b", "q", "k", "b", "n", "r", "/", "p", "p", "1", "p", "p",
          "p", "p", "p", "/", "8", "/", "2", "p", "5", "/", "4", "P", "3", "/",
          "5", "N", "2", "/", "P", "P", "P", "P", "1", "P", "P", "P", "/", "R",
          "N", "B", "Q", "K", "B", "1", "R", " ", "b", " ", "K", "Q", "k", "q",
          " ", "-", " ", "1", " ", "2">>,
     moves |-> <<<<<<"d", "7", "d", "6">>, 40>>,
                <<<<"b", "8", "c", "6">>, 30>>,
                <<<<"e", "7", "e", "6">>, 20>>,
                <<<<"g", "7", "g", "6">>, 10>>>>],
    \* "rnbqkbnr/pp2pppp/3p4/2p5/4P3/5N2/PPPP1PPP/RNBQKB1R w KQkq - 0 3"
    [fen |->
        <<"r", "n", "b", "q", "k", "b", "n", "r", "/", "p", "p", "2", "p", "p",
          "p", "p", "/", "3", "p", "4", "/", "2", "p", "5", "/", "4", "P", "3",
          "/", "5", "N", "2", "/", "P", "P", "P", "P", "1", "P", "P", "P", "/",
          "R", "N", "B", "Q", "K", "B", "1", "R", " ", "w", " ", "K", "Q", "k",
          "q", " ", "-", " ", "0", " ", "3">>,
     moves |-> <<<<<<"d", "2", "d", "4">>, 95>>,
                <<<<"f", "1", "b", "5">>, 5>>>>],
    \* "rnbqkbnr/pp2pppp/3p4/2p5/3PP3/5N2/PPP2PPP/RNBQKB1R b KQkq d3 0 3"
    [fen |->
        <<"r", "n", "b", "q", "k", "b", "n", "r", "/", "p", "p", "2", "p", "p",
          "p", "p", "/", "3", "p", "4", "/", "2", "p", "5", "/", "3", "P", "P",
          "3", "/", "5", "N", "2", "/", "P", "P", "P", "2", "P", "P", "P", "/",
          "R", "N", "B", "Q", "K", "B", "1", "R", " ", "b", " ", "K", "Q", "k",
          "q", " ", "d", "3", " ", "0", " ", "3">>,
     moves |-> <<<<<<"c", "5", "d", "4">>, 100>>>>],
    \* "rnbqkbnr/pp2pppp/3p4/8/3pP3/5N2/PPP2PPP/RNBQKB1R w KQkq - 0 4"
    [fen |->
        <<"r", "n", "b", "q", "k", "b", "n", "r", "/", "p", "p", "2", "p", "p",
          "p", "p", "/", "3", "p", "4", "/", "8", "/", "3", "p", "P", "3", "/",
          "5", "N", "2", "/", "P", "P", "P", "2", "P", "P", "P", "/", "R", "N",
          "B", "Q", "K", "B", "1", "R", " ", "w", " ", "K", "Q", "k", "q", " ",
          "-", " ", "0", " ", "4">>,
     moves |-> <<<<<<"f", "3", "d", "4">>, 100>>>>],
    \* "rnbqkbnr/pp2pppp/3p4/8/3NP3/8/PPP2PPP/RNBQKB1R b KQkq - 0 4"
    [fen |->
        <<"r", "n", "b", "q", "k", "b", "n", "r", "/", "p", "p", "2", "p", "p",
          "p", "p", "/", "3", "p", "4", "/", "8", "/", "3", "N", "P", "3", "/",
          "8", "/", "P", "P", "P", "2", "P", "P", "P", "/", "R", "N", "B", "Q",
          "K", "B", "1", "R", " ", "b", " ", "K", "Q", "k", "q", " ", "-", " ",
          "0", " ", "4">>,
     moves |-> <<<<<<"g", "8", "f", "6">>, 60>>,
                <<<<"b", "8", "c", "6">>, 30>>,
                <<<<"g", "7", "g", "6">>, 10>>>>],
    \* "rnbqkbnr/pppp1ppp/4p3/8/4P3/8/PPPP1PPP/RNBQKBNR w KQkq - 0 2"
    [fen |->
        <<"r", "n", "b", "q", "k", "b", "n", "r", "/", "p", "p", "p", "p", "1",
          "p", "p", "p", "/", "4", "p", "3", "/", "8", "/", "4", "P", "3", "/",
          "8", "/", "P", "P", "P", "P", "1", "P", "P", "P", "/", "R", "N", "B",
          "Q", "K", "B", "N", "R", " ", "w", " ", "K", "Q", "k", "q", " ", "-",
          " ", "0", " ", "2">>,
     moves |-> <<<<<<"d", "2", "d", "4">>, 80>>,
                <<<<"d", "2", "d", "3">>, 15>>,
                <<<<"b", "1", "c", "3">>, 5>>>>],
    \* "rnbqkbnr/pppp1ppp/4p3/8/3PP3/8/PPP2PPP/RNBQKBNR b KQkq d3 0 2"
    [fen |->
        <<"r", "n", "b", "q", "k", "b", "n", "r", "/", "p", "p", "p", "p", "1",
          "p", "p", "p", "/", "4", "p", "3", "/", "8", "/", "3", "P", "P", "3",
          "/", "8", "/", "P", "P", "P", "2", "P", "P", "P", "/", "R", "N", "B",
          "Q", "K", "B", "N", "R", " ", "b", " ", "K", "Q", "k", "q", " ", "d",
          "3", " ", "0", " ", "2">>,
     moves |-> <<<<<<"d", "7", "d", "5">>, 100>>>>],
    \* "rnbqkbnr/ppp2ppp/4p3/3p4/3PP3/8/PPP2PPP/RNBQKBNR w KQkq d6 0 3"
    [fen |->
        <<"r", "n", "b", "q", "k", "b", "n", "r", "/", "p", "p", "p", "2", "p",
          "p", "p", "/", "4", "p", "3", "/", "3", "p", "4", "/", "3", "P", "P",
          "3", "/", "8", "/", "P", "P", "P", "2", "P", "P", "P", "/", "R", "N",
          "B", "Q", "K", "B", "N", "R", " ", "w", " ", "K", "Q", "k", "q", " ",
          "d", "6", " ", "0", " ", "3">>,
     moves |-> <<<<<<"b", "1", "c", "3">>, 50>>,
                <<<<"e", "4", "d", "5">>, 30>>,
                <<<<"e", "4", "e", "5">>, 20>>>>],
    \* "rnbqkbnr/pppppppp/8/8/3P4/8/PPP1PPPP/RNBQKBNR b KQkq d3 0 1"
    [fen |->
        <<"r", "n", "b", "q", "k", "b", "n", "r", "/", "p", "p", "p", "p", "p",
          "p", "p", "p", "/", "8", "/", "8", "/", "3", "P", "4", "/", "8", "/",
          "P", "P", "P", "1", "P", "P", "P", "P", "/", "R", "N", "B", "Q", "K",
          "B", "N", "R", " ", "b", " ", "K", "Q", "k", "q", " ", "d", "3", " ",
          "0", " ", "1">>,
     moves |-> <<<<<<"d", "7", "d", "5">>, 50>>,
                <<<<"g", "8", "f", "6">>, 40>>,
                <<<<"e", "7", "e", "6">>, 8>>,
                <<<<"f", "7", "f", "5">>, 2>>>>],
    \* "rnbqkbnr/ppp1pppp/8/3p4/3P4/8/PPP1PPPP/RNBQKBNR w KQkq d6 0 2"
    [fen |->
        <<"r", "n", "b", "q", "k", "b", "n", "r", "/", "p", "p", "p", "1", "p",
          "p", "p", "p", "/", "8", "/", "3", "p", "4", "/", "3", "P", "4", "/",
          "8", "/", "P", "P", "P", "1", "P", "P", "P", "P", "/", "R", "N", "B",
          "Q", "K", "B", "N", "R", " ", "w", " ", "K", "Q", "k", "q", " ", "d",
          "6", " ", "0", " ", "2">>,
     moves |-> <<<<<<"c", "2", "c", "4">>, 85>>,
                <<<<"g", "1", "f", "3">>, 10>>,
                <<<<"c", "1", "f", "4">>, 5>>>>],
    \* "rnbqkbnr/ppp1pppp/8/3p4/2PP4/8/PP2PPPP/RNBQKBNR b KQkq c3 0 2"
    [fen |->
        <<"r", "n", "b", "q", "k", "b", "n", "r", "/", "p", "p", "p", "1", "p",
          "p", "p", "p", "/", "8", "/", "3", "p", "4", "/", "2", "P", "P", "4",
          "/", "8", "/", "P", "P", "2", "P", "P", "P", "P", "/", "R", "N", "B",
          "Q", "K", "B", "N", "R", " ", "b", " ", "K", "Q", "k", "q", " ", "c",
          "3", " ", "0", " ", "2">>,
     moves |-> <<<<<<"e", "7", "e", "6">>, 50>>,
                <<<<"d", "5", "c", "4">>, 25>>,
                <<<<"c", "7", "c", "6">>, 20>>,
                <<<<"e", "7", "e", "5">>, 5>>>>],
    \* "rnbqkbnr/ppp2ppp/4p3/3p4/2PP4/8/PP2PPPP/RNBQKBNR w KQkq - 0 3"
    [fen |->
        <<"r", "n", "b", "q", "k", "b", "n", "r", "/", "p", "p", "p", "2", "p",
          "p", "p", "/", "4", "p", "3", "/", "3", "p", "4", "/", "2", "P", "P",
          "4", "/", "8", "/", "P", "P", "2", "P", "P", "P", "P", "/", "R", "N",
          "B", "Q", "K", "B", "N", "R", " ", "w", " ", "K", "Q", "k", "q", " ",
          "-", " ", "0", " ", "3">>,
     moves |-> <<<<<<"b", "1", "c", "3">>, 70>>,
                <<<<"g", "1", "f", "3">>, 25>>,
                <<<<"c", "4", "d", "5">>, 5>>>>],
    \* "rnbqkbnr/ppp2ppp/4p3/3p4/2PP4/2N5/PP2PPPP/R1BQKBNR b KQkq - 1 3"
    [fen |->
        <<"r", "n", "b", "q", "k", "b", "n", "r", "/", "p", "p", "p", "2", "p",
          "p", "p", "/", "4", "p", "3", "/", "3", "p", "4", "/", "2", "P", "P",
          "4", "/", "2", "N", "5", "/", "P", "P", "2", "P", "P", "P", "P", "/",
          "R", "1", "B", "Q", "K", "B", "N", "R", " ", "b", " ", "K", "Q", "k",
          "q", " ", "-", " ", "1", " ", "3">>,
     moves |-> <<<<<<"g", "8", "f", "6">>, 85>>,
                <<<<"c", "7", "c", "6">>, 10>>,
                <<<<"f", "8", "e", "7">>, 5>>>>],
    \* "rnbqkb1r/pppppppp/5n2/8/3P4/8/PPP1PPPP/RNBQKBNR w KQkq - 1 2"
    [fen |->
        <<"r", "n", "b", "q", "k", "b", "1", "r", "/", "p", "p", "p", "p", "p",
          "p", "p", "p", "/", "5", "n", "2", "/", "8", "/", "3", "P", "4", "/",
          "8", "/", "P", "P", "P", "1", "P", "P", "P", "P", "/", "R", "N", "B",
          "Q", "K", "B", "N", "R", " ", "w", " ", "K", "Q", "k", "q", " ", "-",
          " ", "1", " ", "2">>,
     moves |-> <<<<<<"c", "2", "c", "4">>, 75>>,
                <<<<"g", "1", "f", "3">>, 20>>,
                <<<<"c", "1", "f", "4">>, 5>>>>],
    \* "rnbqkb1r/pppppppp/5n2/8/2PP4/8/PP2PPPP/RNBQKBNR b KQkq c3 0 2"
    [fen |->
        <<"r", "n", "b", "q", "k", "b", "1", "r", "/", "p", "p", "p", "p", "p",
          "p", "p", "p", "/", "5", "n", "2", "/", "8", "/", "2", "P", "P", "4",
          "/", "8", "/", "P", "P", "2", "P", "P", "P", "P", "/", "R", "N", "B",
          "Q", "K", "B", "N", "R", " ", "b", " ", "K", "Q", "k", "q", " ", "c",
          "3", " ", "0", " ", "2">>,
     moves |-> <<<<<<"e", "7", "e", "6">>, 45>>,
                <<<<"g", "7", "g", "6">>, 35>>,
                <<<<"e", "7", "e", "5">>, 15>>,
                <<<<"c", "7", "c", "5">>, 5>>>>],
    \* "rnbqkb1r/pppp1ppp/4pn2/8/2PP4/8/PP2PPPP/RNBQKBNR w KQkq - 0 3"
    [fen |->
        <<"r", "n", "b", "q", "k", "b", "1", "r", "/", "p", "p", "p", "p", "1",
          "p", "p", "p", "/", "4", "p", "n", "2", "/", "8", "/", "2", "P", "P",
          "4", "/", "8", "/", "P", "P", "2", "P", "P", "P", "P", "/", "R", "N",
          "B", "Q", "K", "B", "N", "R", " ", "w", " ", "K", "Q", "k", "q", " ",
          "-", " ", "0", " ", "3">>,
     moves |-> <<<<<<"b", "1", "c", "3">>, 90>>,
                <<<<"g", "1", "f", "3">>, 10>>>>],
    \* "rnbqkb1r/pppp1ppp/4pn2/8/2PP4/2N5/PP2PPPP/R1BQKBNR b KQkq - 1 3"
    [fen |->
        <<"r", "n", "b", "q", "k", "b", "1", "r", "/", "p", "p", "p", "p", "1",
          "p", "p", "p", "/", "4", "p", "n", "2", "/", "8", "/", "2", "P", "P",
          "4", "/", "2", "N", "5", "/", "P", "P", "2", "P", "P", "P", "P", "/",
          "R", "1", "B", "Q", "K", "B", "N", "R", " ", "b", " ", "K", "Q", "k",
          "q", " ", "-", " ", "1", " ", "3">>,
     moves |-> <<<<<<"f", "8", "b", "4">>, 85>>,
                <<<<"b", "7", "b", "6">>, 10>>,
                <<<<"d", "7", "d", "5">>, 5>>>>],
    \* "rnbqkb1r/pppppp1p/5np1/8/2PP4/8/PP2PPPP/RNBQKBNR w KQkq - 0 3"
    [fen |->
        <<"r", "n", "b", "q", "k", "b", "1", "r", "/", "p", "p", "p", "p", "p",
          "p", "1", "p", "/", "5", "n", "p", "1", "/", "8", "/", "2", "P", "P",
          "4", "/", "8", "/", "P", "P", "2", "P", "P", "P", "P", "/", "R", "N",
          "B", "Q", "K", "B", "N", "R", " ", "w", " ", "K", "Q", "k", "q", " ",
          "-", " ", "0", " ", "3">>,
     moves |-> <<<<<<"b", "1", "c", "3">>, 70>>,
                <<<<"g", "1", "f", "3">>, 25>>,
                <<<<"g", "2", "g", "3">>, 5>>>>],
    \* "rnbqkbnr/pppppppp/8/8/2P5/8/PP1PPPPP/RNBQKBNR b KQkq c3 0 1"
    [fen |->
        <<"r", "n", "b", "q", "k", "b", "n", "r", "/", "p", "p", "p", "p", "p",
          "p", "p", "p", "/", "8", "/", "8", "/", "2", "P", "5", "/", "8", "/",
          "P", "P", "1", "P", "P", "P", "P", "P", "/", "R", "N", "B", "Q", "K",
          "B", "N", "R", " ", "b", " ", "K", "Q", "k", "q", " ", "c", "3", " ",
          "0", " ", "1">>,
     moves |-> <<<<<<"e", "7", "e", "5">>, 35>>,
                <<<<"g", "8", "f", "6">>, 30>>,
                <<<<"c", "7", "c", "5">>, 20>>,
                <<<<"e", "7", "e", "6">>, 10>>,
                <<<<"g", "7", "g", "6">>, 5>>>>],
    \* "rnbqkbnr/pppp1ppp/8/4p3/2P5/8/PP1PPPPP/RNBQKBNR w KQkq e6 0 2"
    [fen |->
        <<"r", "n", "b", "q", "k", "b", "n", "r", "/", "p", "p", "p", "p", "1",
          "p", "p", "p", "/", "8", "/", "4", "p", "3", "/", "2", "P", "5", "/",
          "8", "/", "P", "P", "1", "P", "P", "P", "P", "P", "/", "R", "N", "B",
          "Q", "K", "B", "N", "R", " ", "w", " ", "K", "Q", "k", "q", " ", "e",
          "6", " ", "0", " ", "2">>,
     moves |-> <<<<<<"b", "1", "c", "3">>, 60>>,
                <<<<"g", "1", "f", "3">>, 30>>,
                <<<<"g", "2", "g", "3">>, 10>>>>] >>

\* BookPosition::get_random_move: the moves a roll of thread_rng can select,
\* which are those of positive weight
get_random_move(moves) ==
    IF \A i \in DOMAIN moves : moves[i][2] = 0 THEN {None}
    ELSE {Some(moves[i][1]) : i \in {j \in DOMAIN moves : moves[j][2] > 0}}

\* probe_book: the values a call can return
probe_book(fen) ==
    IF \E i \in DOMAIN OPENING_BOOK : OPENING_BOOK[i].fen = fen
    THEN get_random_move(
             OPENING_BOOK[CHOOSE i \in DOMAIN OPENING_BOOK : OPENING_BOOK[i].fen = fen].moves)
    ELSE {None}

(***************************************************************************)
(* The 64-bit word of a hash.  ZobristWords holds the words Zobrist::new   *)
(* draws, in the order of the calls of rng.gen(): the output of StdRng of  *)
(* rand 0.8 (ChaCha with 12 rounds, two 32-bit words to a u64, the low one *)
(* first) under the key seed_from_u64(42) makes of the seed.  HashWord(h)  *)
(* is the XOR of the words of the keys in h, a u64.                        *)
(***************************************************************************)
ZobristWords ==
    <<<<9378, 17486, 23948, 13923, 8>>, <<20861, 32602, 10316, 22400, 8>>,
      <<13521, 15522, 455, 6011, 10>>, <<12466, 31468, 13795, 16201, 6>>,
      <<8170, 28707, 17279, 18005, 0>>, <<424, 15391, 29326, 20948, 6>>,
      <<30971, 12816, 25505, 26174, 11>>, <<14135, 24349, 13932, 19268, 13>>,
      <<862, 16953, 31006, 3291, 2>>, <<14878, 30068, 1149, 1705, 0>>,
      <<11831, 9431, 16615, 29960, 14>>, <<11273, 12957, 1210, 3224, 8>>,
      <<30290, 15269, 23823, 8204, 6>>, <<16346, 27534, 22622, 8325, 2>>,
      <<11772, 6837, 4611, 12079, 8>>, <<8592, 8960, 23471, 16360, 3>>,
      <<12234, 17934, 11762, 6602, 0>>, <<21491, 21021, 28804, 10091, 8>>,
      <<22244, 27828, 29161, 26357, 0>>, <<21791, 21254, 7974, 11246, 10>>,
      <<30143, 1419, 26433, 17453, 13>>, <<10290, 27999, 5805, 31576, 7>>,
      <<20419, 30004, 111, 3134, 8>>, <<16165, 21524, 3325, 30668, 0>>,
      <<19280, 12189, 24972, 20190, 5>>, <<14418, 6812, 2173, 5274, 7>>,
      <<4309, 18335, 15056, 23270, 12>>, <<20420, 10824, 30918, 8406, 3>>,
      <<13298, 2516, 16182, 14005, 6>>, <<11219, 21519, 8184, 15519, 10>>,
      <<18145, 15124, 4819, 25683, 6>>, <<12012, 25632, 29696, 7069, 14>>,
      <<14249, 23757, 26307, 24624, 14>>, <<3599, 22560, 9637, 29781, 13>>,
      <<23507, 19084, 1730, 12526, 10>>, <<8499, 7697, 7071, 17444, 3>>,
      <<7350, 13654, 27945, 7619, 9>>, <<1487, 16625, 11209, 7920, 6>>,
      <<11367, 13046, 4270, 2219, 1>>, <<28756, 12710, 20460, 27924, 6>>,
      <<21943, 4670, 2828, 25771, 15>>, <<18451, 5762, 25991, 23538, 9>>,
      <<14741, 17732, 22795, 7928, 7>>, <<24657, 32426, 11144, 14802, 0>>,
      <<8757, 16496, 27879, 15307, 2>>, <<9309, 1893, 25513, 5017, 6>>,
      <<14987, 615, 24408, 28265, 7>>, <<5084, 8115, 5811, 16352, 15>>,
      <<22310, 32744, 8865, 20340, 13>>, <<26020, 25533, 3167, 24004, 8>>,
      <<32181, 26466, 6479, 9884, 12>>, <<21681, 4759, 11831, 31907, 12>>,
      <<28947, 32574, 12299, 6511, 9>>, <<23164, 12870, 21647, 24834, 3>>,
      <<7912, 30899, 10247, 4292, 6>>, <<23148, 30329, 21715, 9839, 6>>,
      <<22374, 17541, 30435, 21774, 3>>, <<5406, 26701, 28099, 30524, 3>>,
      <<22659, 17591, 30859, 4958, 10>>, <<15444, 6640, 30937, 21228, 7>>,
      <<12213, 23001, 32071, 15478, 15>>, <<19011, 26484, 775, 22864, 2>>,
      <<28711, 31783, 28622, 14515, 7>>, <<19648, 19761, 27436, 17965, 8>>,
      <<16559, 16678, 11490, 25344, 1>>, <<14361, 6899, 6946, 8489, 5>>,
      <<25389, 1552, 24459, 29955, 3>>, <<32480, 6034, 5269, 3069, 9>>,
      <<15484, 14016, 6195, 30607, 10>>, <<23490, 4102, 22621, 31112, 0>>,
      <<31101, 28615, 28658, 21228, 7>>, <<21990, 27044, 25871, 26599, 9>>,
      <<10798, 4181, 23531, 30220, 13>>, <<578, 858, 9001, 2802, 9>>,
      <<27244, 26800, 6160, 25333, 7>>, <<7104, 30276, 32478, 5267, 7>>,
      <<21108, 14762, 31596, 28798, 14>>, <<2739, 6449, 28439, 21325, 0>>,
      <<1482, 1004, 7317, 26242, 7>>, <<31603, 10403, 4919, 3520, 12>>,
      <<905, 7496, 31954, 4029, 5>>, <<20035, 29926, 28549, 15751, 5>>,
      <<19726, 4707, 28901, 4178, 6>>, <<12603, 13903, 25590, 18404, 11>>,
      <<28681, 17803, 24587, 31226, 10>>, <<9156, 17006, 10257, 7190, 9>>,
      <<11890, 14328, 16882, 8926, 1>>, <<3439, 24233, 14352, 8815, 6>>,
      <<1747, 28449, 8570, 13552, 11>>, <<5622, 27722, 20691, 30373, 14>>,
      <<31993, 848, 24973, 13269, 1>>, <<10255, 19366, 22420, 17277, 13>>,
      <<26658, 29408, 10800, 5431, 9>>, <<3539, 21309, 31370, 17126, 12>>,
      <<27486, 8729, 13839, 7280, 12>>, <<17511, 22638, 6736, 5263, 5>>,
      <<3698, 31162, 14761, 21910, 2>>, <<4106, 32319, 18000, 22270, 12>>,
      <<6049, 18908, 21887, 157, 14>>, <<16296, 8711, 29783, 2631, 5>>,
      <<9972, 31122, 15726, 9829, 2>>, <<21532, 24937, 14099, 20124, 4>>,
      <<23388, 18778, 9459, 25800, 14>>, <<17712, 21918, 1395, 27938, 11>>,
      <<2812, 19372, 19054, 9067, 4>>, <<16191, 21462, 6938, 4568, 2>>,
      <<5127, 3803, 28358, 16225, 13>>, <<16475, 23959, 8986, 14795, 2>>,
      <<23189, 25104, 31878, 17670, 6>>, <<1509, 24558, 12100, 11841, 6>>,
      <<6407, 27537, 24981, 13789, 9>>, <<5371, 23918, 18625, 4100, 14>>,
      <<10136, 26638, 32744, 8803, 2>>, <<31236, 9471, 20794, 28528, 8>>,
      <<28674, 9717, 30817, 18845, 7>>, <<24119, 1726, 147, 13023, 12>>,
      <<30654, 30781, 14314, 21417, 8>>, <<22733, 25678, 22620, 9354, 14>>,
      <<20534, 2674, 25248, 28622, 1>>, <<10760, 1509, 18327, 15027, 13>>,
      <<4211, 13718, 18528, 25082, 2>>, <<4159, 2250, 6334, 11527, 15>>,
      <<21119, 19739, 8759, 27111, 15>>, <<30842, 11586, 2118, 3660, 2>>,
      <<27425, 25337, 14703, 18754, 15>>, <<14235, 11264, 24614, 7473, 14>>,
      <<29176, 12316, 6985, 7213, 3>>, <<11185, 12057, 31604, 21900, 7>>,
      <<5271, 29132, 24885, 16235, 1>>, <<13196, 28596, 828, 20713, 10>>,
      <<6397, 3066, 24757, 12994, 12>>, <<2758, 26856, 15365, 1844, 2>>,
      <<5703, 4622, 5887, 9884, 6>>, <<31892, 12114, 7764, 18015, 7>>,
      <<3337, 2035, 10490, 9872, 13>>, <<19741, 17547, 27661, 7148, 3>>,
      <<28399, 10477, 4846, 30923, 0>>, <<28950, 26675, 5904, 8251, 1>>,
      <<6950, 26782, 32219, 4477, 8>>, <<23583, 6522, 23642, 4898, 2>>,
      <<25458, 22651, 19943, 8044, 4>>, <<8035, 25266, 16703, 952, 11>>,
      <<9076, 19235, 7422, 1418, 5>>, <<12501, 20284, 9784, 25417, 1>>,
      <<1110, 16621, 11148, 23471, 2>>, <<30634, 14986, 22036, 22009, 11>>,
      <<17217, 25728, 28198, 12096, 7>>, <<738, 8658, 17041, 5189, 4>>,
      <<3871, 29470, 19684, 27742, 8>>, <<7248, 8887, 5855, 10205, 9>>,
      <<27291, 3720, 2449, 19397, 6>>, <<9441, 422, 27557, 2538, 14>>,
      <<4743, 9287, 30360, 28192, 7>>, <<6903, 13425, 6948, 9266, 0>>,
      <<12648, 18303, 12658, 28124, 9>>, <<31579, 12174, 29064, 4044, 0>>,
      <<3287, 7581, 11310, 20887, 10>>, <<31876, 19314, 940, 3669, 2>>,
      <<31263, 2019, 5938, 9233, 8>>, <<25587, 4070, 14619, 5004, 0>>,
      <<14456, 21772, 18130, 15292, 3>>, <<25424, 6537, 14037, 31324, 10>>,
      <<27922, 9788, 14507, 18850, 14>>, <<31436, 23, 28713, 7189, 7>>,
      <<16748, 12820, 12932, 3484, 7>>, <<22605, 1585, 30712, 16917, 1>>,
      <<10058, 20736, 12320, 29014, 10>>, <<22652, 21552, 17858, 15872, 4>>,
      <<12296, 8042, 21965, 4119, 1>>, <<10683, 7309, 30890, 422, 15>>,
      <<6304, 31431, 14272, 4206, 5>>, <<27217, 28794, 13022, 2136, 3>>,
      <<3810, 19088, 14191, 164, 0>>, <<9751, 3836, 3411, 32714, 7>>,
      <<25955, 6721, 21640, 24989, 3>>, <<31584, 11516, 19269, 25653, 13>>,
      <<4696, 27275, 12977, 22121, 13>>, <<24800, 9412, 11453, 414, 7>>,
      <<24217, 12336, 25899, 8753, 6>>, <<25229, 4747, 31850, 17067, 15>>,
      <<9902, 3312, 13691, 3683, 10>>, <<9951, 26099, 30884, 86, 8>>,
      <<16312, 21719, 14743, 7212, 1>>, <<8138, 111, 2797, 30112, 7>>,
      <<313, 8278, 14954, 8869, 11>>, <<14057, 171, 2528, 20798, 15>>,
      <<4714, 14764, 12480, 14882, 8>>, <<4910, 21029, 14037, 20330, 11>>,
      <<28740, 30881, 1549, 5278, 3>>, <<15187, 12322, 15820, 15937, 1>>,
      <<22570, 1997, 30676, 1027, 0>>, <<21552, 16919, 16335, 19473, 11>>,
      <<1050, 30724, 20706, 22896, 9>>, <<393, 24128, 20902, 24035, 4>>,
      <<121, 18499, 30368, 25734, 11>>, <<4318, 4968, 31710, 9563, 4>>,
      <<26307, 7271, 27836, 19191, 11>>, <<727, 21484, 2351, 23573, 15>>,
      <<20528, 11268, 10593, 13716, 12>>, <<31738, 14609, 24892, 8874, 15>>,
      <<25983, 19426, 12510, 5357, 13>>, <<18657, 24560, 318, 17824, 11>>,
      <<7882, 18363, 11290, 30178, 0>>, <<3381, 15309, 16733, 151, 2>>,
      <<18865, 25374, 8033, 3206, 11>>, <<10367, 4646, 12269, 2461, 14>>,
      <<1370, 1112, 28297, 11484, 3>>, <<18942, 3340, 9548, 11857, 5>>,
      <<3364, 6458, 23874, 21231, 7>>, <<7335, 23747, 26310, 27340, 12>>,
      <<1241, 6259, 15693, 7419, 12>>, <<28859, 11197, 25526, 8210, 4>>,
      <<7450, 27149, 21605, 15255, 6>>, <<5397, 7948, 6619, 7809, 1>>,
      <<31386, 8333, 5799, 4115, 9>>, <<18035, 27962, 31884, 8270, 12>>,
      <<748, 1913, 24047, 16643, 10>>, <<13736, 24994, 26426, 12714, 4>>,
      <<16160, 27582, 27385, 31875, 13>>, <<20136, 18752, 21197, 5380, 14>>,
      <<5042, 2993, 26815, 31749, 11>>, <<12759, 5154, 16875, 28234, 4>>,
      <<25696, 7685, 9467, 20670, 1>>, <<23868, 14960, 12281, 7372, 2>>,
      <<14593, 1979, 23951, 27843, 10>>, <<8227, 12702, 2528, 6106, 11>>,
      <<16617, 31084, 9285, 15017, 11>>, <<10157, 23555, 17692, 9120, 13>>,
      <<31265, 4360, 1422, 30422, 13>>, <<22854, 24693, 26129, 19098, 4>>,
      <<12286, 31665, 16661, 30175, 0>>, <<6694, 28208, 2223, 20680, 6>>,
      <<17129, 1145, 4498, 11740, 9>>, <<22683, 25313, 9740, 20316, 13>>,
      <<23698, 20232, 13860, 12055, 4>>, <<8368, 8881, 11033, 3116, 6>>,
      <<3256, 31438, 25945, 28798, 4>>, <<9071, 4255, 9767, 704, 9>>,
      <<23485, 30723, 9848, 9785, 6>>, <<17901, 11149, 6664, 10676, 0>>,
      <<7124, 25018, 1589, 17894, 8>>, <<1138, 28100, 4557, 16577, 0>>,
      <<17291, 7386, 16390, 16480, 8>>, <<2957, 26700, 18228, 31122, 8>>,
      <<6311, 27755, 18989, 20949, 5>>, <<21600, 23913, 18976, 2477, 14>>,
      <<13820, 4707, 22375, 4787, 10>>, <<11890, 10484, 16664, 29846, 10>>,
      <<30256, 3669, 4524, 18974, 7>>, <<6463, 12604, 31199, 9971, 10>>,
      <<7537, 3531, 913, 4807, 14>>, <<12761, 4250, 19295, 10870, 6>>,
      <<26691, 16571, 19815, 25638, 8>>, <<29336, 30029, 13537, 9115, 11>>,
      <<17196, 13663, 25483, 17188, 15>>, <<5435, 3349, 14986, 29430, 2>>,
      <<6460, 4077, 9406, 22231, 3>>, <<19102, 7459, 25734, 27027, 1>>,
      <<11201, 18094, 3548, 26771, 3>>, <<11100, 3637, 30669, 25762, 9>>,
      <<15902, 26638, 19394, 11929, 11>>, <<23067, 22189, 22123, 24503, 12>>,
      <<6113, 17328, 29349, 29933, 1>>, <<7905, 1612, 32470, 3625, 2>>,
      <<27146, 12907, 22632, 29208, 7>>, <<32474, 7388, 32720, 24259, 10>>,
      <<2640, 9557, 4111, 5685, 5>>, <<17693, 26307, 20459, 11079, 11>>,
      <<6420, 19998, 16148, 26516, 1>>, <<19262, 21231, 14875, 9795, 11>>,
      <<24970, 14634, 19878, 12205, 7>>, <<17191, 9567, 6682, 791, 6>>,
      <<11282, 5741, 24484, 21859, 13>>, <<31871, 182, 27593, 2869, 15>>,
      <<3896, 1683, 27535, 14039, 4>>, <<9362, 89, 16406, 27931, 15>>,
      <<18744, 19292, 4786, 22291, 3>>, <<10473, 11290, 30993, 28062, 0>>,
      <<31136, 28821, 29206, 6064, 12>>, <<15485, 32276, 26655, 32238, 13>>,
      <<8801, 3636, 9843, 24888, 0>>, <<18369, 2146, 6429, 1299, 2>>,
      <<2548, 26633, 22867, 13457, 7>>, <<22534, 2505, 10846, 16761, 9>>,
      <<19244, 27606, 4683, 21705, 9>>, <<7127, 407, 19328, 32545, 0>>,
      <<11134, 22615, 24611, 18315, 8>>, <<21327, 23629, 3266, 4746, 12>>,
      <<7703, 230, 29891, 8862, 11>>, <<23887, 30032, 1887, 5171, 11>>,
      <<12625, 3803, 18949, 24598, 13>>, <<10796, 3845, 11088, 4562, 6>>,
      <<29518, 24912, 19655, 12622, 11>>, <<29997, 28809, 7243, 23233, 0>>,
      <<2451, 24765, 8027, 23116, 3>>, <<16251, 156, 31911, 4268, 6>>,
      <<180, 27664, 16838, 18912, 1>>, <<14556, 13119, 26269, 23178, 13>>,
      <<9286, 18265, 19937, 7063, 14>>, <<31749, 87, 17337, 23744, 0>>,
      <<18944, 15114, 28844, 31267, 8>>, <<16066, 28865, 16642, 30854, 12>>,
      <<26983, 11486, 29022, 2285, 7>>, <<26116, 4152, 3810, 30629, 12>>,
      <<17348, 7864, 6463, 5441, 2>>, <<24530, 11407, 18147, 898, 9>>,
      <<6619, 21941, 1399, 15114, 13>>, <<4749, 668, 13041, 26840, 11>>,
      <<6650, 18519, 21445, 7107, 10>>, <<30139, 14790, 26418, 28291, 4>>,
      <<14459, 12290, 1212, 13655, 7>>, <<24556, 24859, 27088, 15486, 11>>,
      <<14916, 29603, 5034, 25599, 11>>, <<20503, 5486, 17290, 1091, 8>>,
      <<1028, 24477, 24818, 19931, 10>>, <<1897, 25009, 1723, 8391, 4>>,
      <<22803, 28856, 22339, 23565, 14>>, <<7556, 17320, 23318, 16998, 8>>,
      <<10444, 29974, 7746, 27671, 6>>, <<16380, 30489, 13557, 9990, 1>>,
      <<14996, 30164, 18894, 24428, 13>>, <<25015, 17701, 7763, 13870, 10>>,
      <<15116, 28089, 31510, 27321, 0>>, <<5260, 8958, 17489, 31777, 8>>,
      <<2760, 31244, 2520, 4439, 3>>, <<15570, 13317, 31817, 9324, 6>>,
      <<23309, 21597, 28971, 29780, 3>>, <<25884, 3442, 8983, 16083, 0>>,
      <<3189, 31399, 7401, 21178, 4>>, <<32513, 14673, 28200, 11866, 7>>,
      <<5375, 14819, 19498, 18748, 2>>, <<1110, 14969, 662, 1943, 12>>,
      <<27004, 9392, 17613, 16583, 8>>, <<27861, 11248, 9936, 3101, 8>>,
      <<1947, 24263, 2937, 3983, 9>>, <<28504, 26785, 7017, 14336, 15>>,
      <<21640, 32177, 27192, 8625, 11>>, <<11304, 15650, 24559, 4963, 13>>,
      <<13353, 26826, 12932, 12728, 12>>, <<18574, 5162, 26555, 26936, 13>>,
      <<5935, 26964, 18421, 27155, 12>>, <<30208, 12332, 7602, 9887, 4>>,
      <<5474, 27337, 2557, 31539, 3>>, <<32077, 13064, 16583, 10087, 15>>,
      <<12025, 15007, 31708, 21828, 7>>, <<15934, 19341, 21618, 4978, 1>>,
      <<18911, 20723, 13276, 20004, 6>>, <<3285, 23884, 15516, 24602, 10>>,
      <<7964, 3267, 31870, 3770, 0>>, <<9387, 6839, 19441, 9075, 4>>,
      <<11974, 26768, 2398, 28979, 4>>, <<17998, 3658, 30180, 12597, 3>>,
      <<6643, 31994, 15991, 7406, 4>>, <<21568, 27041, 20777, 1180, 13>>,
      <<17797, 27957, 22556, 12290, 6>>, <<18953, 16359, 3243, 30028, 3>>,
      <<19244, 28915, 20342, 216, 9>>, <<17677, 10698, 3616, 18422, 7>>,
      <<31378, 26986, 5803, 21982, 2>>, <<27074, 25116, 25394, 2627, 0>>,
      <<25848, 19464, 29498, 20681, 2>>, <<23311, 25710, 350, 25643, 13>>,
      <<15399, 23209, 20817, 7133, 6>>, <<5289, 20904, 9329, 7069, 15>>,
      <<11460, 9446, 22417, 16635, 2>>, <<15220, 24560, 1928, 12636, 4>>,
      <<15557, 10194, 15533, 16841, 11>>, <<2900, 4078, 3072, 10778, 1>>,
      <<16652, 29842, 27405, 12632, 15>>, <<9535, 586, 1241, 29788, 3>>,
      <<28667, 24568, 76, 31875, 7>>, <<7458, 18553, 16199, 19791, 5>>,
      <<5628, 14832, 30889, 9937, 3>>, <<29440, 21009, 24430, 17309, 12>>,
      <<12937, 3826, 28226, 17759, 0>>, <<28678, 29546, 20051, 28859, 4>>,
      <<27965, 2479, 8394, 4775, 4>>, <<8463, 4512, 11069, 24668, 11>>,
      <<5914, 30218, 8167, 13962, 3>>, <<12761, 16554, 19318, 28261, 13>>,
      <<29444, 3444, 17776, 12883, 7>>, <<14380, 20582, 20232, 19712, 13>>,
      <<20178, 15895, 9923, 18893, 11>>, <<8614, 19563, 18946, 18695, 5>>,
      <<25721, 9654, 569, 5775, 8>>, <<8866, 28321, 6068, 4587, 2>>,
      <<27010, 27581, 30152, 21381, 6>>, <<22790, 12849, 18444, 7260, 2>>,
      <<28718, 29482, 6682, 9695, 0>>, <<7996, 24028, 31710, 9790, 8>>,
      <<24464, 23449, 22177, 15300, 13>>, <<3211, 22168, 20694, 6116, 14>>,
      <<27326, 13132, 7170, 22461, 8>>, <<9492, 2593, 7299, 18971, 13>>,
      <<24601, 29949, 28299, 14371, 6>>, <<24944, 29577, 3193, 2204, 3>>,
      <<10554, 19991, 18047, 21694, 14>>, <<6660, 24867, 4315, 20617, 3>>,
      <<4026, 16276, 917, 31487, 10>>, <<790, 1917, 28931, 17973, 7>>,
      <<14713, 12156, 6845, 1530, 15>>, <<13626, 14191, 30294, 32105, 3>>,
      <<2259, 25874, 27233, 26076, 9>>, <<26602, 30070, 14834, 22964, 3>>,
      <<9460, 29856, 13177, 19377, 3>>, <<16972, 2224, 5357, 27928, 7>>,
      <<25630, 15526, 17972, 3105, 2>>, <<8710, 11725, 21604, 16009, 11>>,
      <<1422, 5342, 24082, 26977, 9>>, <<14135, 32376, 28802, 25051, 15>>,
      <<6479, 13138, 5248, 30890, 2>>, <<14187, 20387, 9110, 27565, 10>>,
      <<11467, 21214, 11372, 30170, 8>>, <<31141, 5221, 12415, 12731, 9>>,
      <<650, 7743, 27202, 29054, 4>>, <<8013, 972, 20025, 21301, 15>>,
      <<1091, 15481, 15673, 9565, 6>>, <<27579, 23506, 17980, 20850, 9>>,
      <<29433, 12660, 11664, 1517, 7>>, <<4659, 3190, 9450, 9963, 8>>,
      <<5168, 27390, 17090, 1911, 2>>, <<16792, 30424, 1978, 6288, 6>>,
      <<7203, 11295, 31899, 4405, 14>>, <<18199, 11685, 15759, 938, 12>>,
      <<31625, 18858, 15983, 24395, 10>>, <<7684, 21835, 17166, 31675, 13>>,
      <<24077, 31498, 27030, 29941, 0>>, <<26995, 16917, 10709, 22312, 5>>,
      <<27861, 20386, 15206, 24716, 0>>, <<29366, 5082, 1292, 27782, 15>>,
      <<4058, 32389, 5275, 27390, 8>>, <<14791, 16973, 9500, 10085, 6>>,
      <<13844, 26374, 7038, 4077, 0>>, <<22840, 5365, 567, 20947, 12>>,
      <<22250, 16170, 9319, 14913, 8>>, <<6834, 16373, 30112, 27887, 3>>,
      <<19216, 11716, 15996, 18856, 8>>, <<31889, 29921, 12703, 30124, 3>>,
      <<8630, 13749, 15211, 22015, 9>>, <<10231, 31994, 17792, 8756, 10>>,
      <<30341, 18549, 1251, 12434, 5>>, <<3459, 13195, 24988, 7258, 11>>,
      <<23326, 9034, 31604, 27926, 12>>, <<6939, 22722, 18188, 25713, 8>>,
      <<25542, 5804, 15517, 27324, 6>>, <<8012, 3934, 4813, 22405, 4>>,
      <<4719, 22991, 31385, 30799, 2>>, <<12881, 25963, 29891, 4228, 7>>,
      <<28665, 32730, 28752, 12831, 3>>, <<3919, 11168, 13461, 13538, 4>>,
      <<9539, 7302, 24934, 2018, 2>>, <<4174, 17105, 14330, 4614, 10>>,
      <<15488, 7581, 26250, 989, 1>>, <<30779, 21181, 24017, 16016, 4>>,
      <<8941, 25892, 28013, 18221, 14>>, <<6597, 26068, 13809, 20436, 2>>,
      <<7712, 31597, 15336, 25703, 15>>, <<3221, 21159, 23773, 5202, 12>>,
      <<317, 2332, 16423, 17272, 1>>, <<28646, 16296, 2211, 12470, 3>>,
      <<5080, 32062, 29956, 27912, 8>>, <<9165, 21644, 14088, 4839, 7>>,
      <<8288, 22801, 6758, 9543, 2>>, <<20671, 25511, 1425, 9398, 1>>,
      <<4088, 6537, 25821, 30796, 14>>, <<18841, 9903, 14139, 26060, 8>>,
      <<19027, 12032, 18552, 19730, 1>>, <<9489, 27649, 24552, 22034, 2>>,
      <<9123, 4534, 23960, 4331, 9>>, <<2444, 25072, 26628, 23383, 6>>,
      <<26531, 9233, 8789, 16618, 6>>, <<25906, 28640, 17006, 28672, 14>>,
      <<28754, 9971, 552, 31165, 1>>, <<5649, 20797, 9728, 1616, 5>>,
      <<31968, 11657, 4337, 15772, 6>>, <<25520, 845, 4386, 7594, 15>>,
      <<21027, 2365, 8041, 20618, 11>>, <<13902, 20125, 28235, 13708, 1>>,
      <<14500, 17772, 1110, 19458, 1>>, <<32506, 3560, 6559, 1434, 11>>,
      <<7835, 8521, 8456, 15237, 3>>, <<9938, 28360, 31625, 26514, 13>>,
      <<29127, 10965, 27784, 12216, 6>>, <<1064, 1560, 673, 19385, 14>>,
      <<23337, 23392, 14750, 24903, 15>>, <<28210, 24750, 11866, 25070, 12>>,
      <<29784, 26005, 6213, 27760, 0>>, <<3967, 15260, 9479, 24908, 4>>,
      <<32105, 31857, 6127, 19868, 12>>, <<11611, 28582, 8455, 11119, 5>>,
      <<24650, 6320, 21447, 11667, 8>>, <<14367, 27465, 23706, 16202, 9>>,
      <<10501, 5109, 13208, 26541, 12>>, <<25741, 29227, 27599, 28571, 12>>,
      <<28729, 5468, 21523, 25797, 7>>, <<26518, 30872, 9085, 29344, 7>>,
      <<25472, 16363, 15571, 7063, 6>>, <<13672, 18275, 14960, 9231, 7>>,
      <<4968, 27596, 4773, 31120, 2>>, <<7160, 21602, 13518, 6398, 7>>,
      <<19757, 28306, 10662, 19667, 13>>, <<21211, 6411, 12869, 14970, 1>>,
      <<10057, 32539, 18852, 6957, 0>>, <<15336, 5932, 10797, 2056, 6>>,
      <<5206, 29326, 17900, 5853, 8>>, <<25772, 12250, 2425, 2168, 7>>,
      <<10044, 12833, 13719, 17289, 14>>, <<19211, 17756, 5870, 30739, 7>>,
      <<20297, 29638, 21682, 13950, 1>>, <<30575, 10411, 30569, 3827, 11>>,
      <<18843, 22650, 13329, 7933, 13>>, <<6762, 24615, 17888, 18771, 12>>,
      <<27868, 28100, 3659, 20247, 6>>, <<32559, 22550, 15564, 29098, 12>>,
      <<4069, 18385, 11679, 3977, 5>>, <<30816, 8684, 14466, 9919, 1>>,
      <<23301, 22081, 28645, 14226, 11>>, <<14217, 9030, 8565, 14503, 13>>,
      <<27885, 10159, 2540, 14581, 5>>, <<16300, 14080, 22088, 972, 6>>,
      <<806, 3933, 10511, 4909, 12>>, <<10798, 97, 6219, 31024, 6>>,
      <<10321, 26312, 23151, 5151, 12>>, <<5023, 18021, 7391, 25701, 0>>,
      <<3638, 16821, 6261, 19382, 12>>, <<6505, 24491, 16807, 17290, 8>>,
      <<29182, 14009, 538, 5367, 9>>, <<12713, 8503, 25231, 14704, 0>>,
      <<13177, 22849, 25422, 22129, 8>>, <<6157, 24256, 24587, 11333, 5>>,
      <<17336, 26899, 13601, 655, 15>>, <<5976, 1671, 19185, 5309, 7>>,
      <<13894, 18327, 12450, 26689, 15>>, <<24573, 25516, 10055, 14632, 10>>,
      <<30650, 7680, 26825, 14925, 12>>, <<27372, 31566, 11388, 1737, 10>>,
      <<31625, 4898, 24876, 25977, 8>>, <<15081, 22190, 7451, 2786, 11>>,
      <<18468, 5082, 29827, 23911, 12>>, <<22321, 21245, 9918, 13824, 8>>,
      <<30809, 7157, 6152, 2356, 1>>, <<27846, 25278, 1840, 21853, 4>>,
      <<27059, 9753, 26967, 28527, 5>>, <<30339, 3650, 30339, 8551, 8>>,
      <<7543, 12827, 15137, 27908, 5>>, <<29223, 23012, 19999, 27090, 4>>,
      <<19381, 24468, 15984, 19020, 8>>, <<30170, 6278, 614, 10599, 0>>,
      <<11747, 1878, 26871, 26277, 2>>, <<11, 17648, 7056, 25442, 10>>,
      <<9768, 16898, 6386, 10309, 13>>, <<12285, 11983, 1967, 12394, 4>>,
      <<12023, 23264, 12936, 7085, 9>>, <<3571, 10194, 22918, 18069, 9>>,
      <<19022, 21111, 25877, 23585, 9>>, <<3407, 32597, 29055, 27861, 2>>,
      <<18463, 27760, 15823, 25528, 9>>, <<24320, 12179, 12941, 28568, 1>>,
      <<5983, 1539, 15931, 3593, 7>>, <<18801, 12008, 11656, 21246, 13>>,
      <<3521, 31055, 12796, 16224, 8>>, <<27032, 10031, 8328, 16073, 7>>,
      <<10786, 6319, 19096, 20475, 8>>, <<5923, 21517, 17333, 21184, 12>>,
      <<15284, 19457, 4243, 18351, 11>>, <<7273, 1404, 24254, 18266, 8>>,
      <<14935, 32487, 13476, 15249, 12>>, <<3776, 11284, 1831, 5854, 6>>,
      <<29929, 30113, 26187, 2606, 4>>, <<25331, 6360, 13511, 14891, 11>>,
      <<31127, 29641, 29770, 18769, 15>>, <<15012, 30842, 8781, 21456, 6>>,
      <<26152, 5057, 8739, 13581, 8>>, <<15250, 23773, 20209, 16123, 14>>,
      <<15947, 22245, 10743, 9876, 9>>, <<19098, 16652, 182, 20154, 8>>,
      <<3632, 23608, 13955, 28203, 14>>, <<10997, 32620, 6159, 2200, 2>>,
      <<26065, 18741, 2816, 6127, 1>>, <<13697, 18749, 19093, 30510, 3>>,
      <<19707, 21527, 24903, 23864, 6>>, <<11647, 16566, 9152, 20841, 0>>,
      <<10472, 24890, 16722, 11768, 4>>, <<22671, 15258, 13530, 4024, 1>>,
      <<11656, 32536, 3600, 18560, 13>>, <<22308, 176, 1344, 5863, 14>>,
      <<1908, 1255, 6066, 789, 8>>, <<6134, 27549, 14496, 17084, 13>>,
      <<31027, 6344, 16363, 16611, 8>>, <<6887, 2486, 2985, 18063, 0>>,
      <<21748, 28545, 16594, 23648, 1>>, <<1356, 5772, 23094, 16396, 15>>,
      <<21110, 16213, 8649, 3702, 14>>, <<18548, 17925, 29527, 10120, 5>>,
      <<9788, 19702, 18847, 32005, 6>>, <<28246, 30663, 1484, 30193, 1>>,
      <<13183, 18074, 5545, 26499, 9>>, <<20156, 27161, 13907, 22079, 11>>,
      <<1861, 12545, 485, 22655, 10>>, <<18167, 16058, 14784, 20948, 9>>,
      <<28962, 30253, 7785, 8236, 12>>, <<28063, 7448, 27199, 27916, 15>>,
      <<32094, 956, 32625, 15357, 13>>, <<16598, 25442, 27511, 24607, 12>>,
      <<26271, 18, 24242, 27362, 3>>, <<29621, 24570, 12059, 29618, 10>>,
      <<5646, 1113, 8825, 32328, 1>>, <<17358, 22593, 28009, 18796, 5>>,
      <<4653, 708, 25464, 21042, 3>>, <<8787, 23583, 4580, 15903, 14>>,
      <<6384, 27833, 1537, 12300, 14>>, <<9174, 30073, 31072, 25712, 12>>,
      <<627, 6426, 21704, 11876, 11>>, <<6476, 14982, 32214, 28992, 15>>,
      <<6069, 575, 24651, 12984, 7>>, <<29247, 25224, 24541, 21826, 5>>,
      <<30008, 13889, 22467, 17505, 8>>, <<22466, 18677, 26510, 29225, 14>>,
      <<23849, 19029, 27254, 7477, 3>>, <<9923, 11600, 3573, 6671, 1>>,
      <<19261, 27998, 28066, 18246, 8>>, <<4124, 5759, 14506, 13291, 10>>,
      <<22479, 3994, 27510, 20644, 11>>, <<30782, 171, 15464, 2111, 3>>,
      <<21012, 23826, 9023, 21178, 10>>, <<19455, 19049, 7507, 10148, 8>>,
      <<21557, 31680, 13999, 30622, 1>>, <<25093, 17586, 3470, 9991, 7>>,
      <<1350, 10104, 6783, 20491, 5>>, <<23635, 5715, 11241, 3363, 8>>,
      <<23755, 7587, 3035, 6022, 4>>, <<19152, 17166, 17539, 14220, 12>>,
      <<13435, 11985, 18147, 9922, 5>>, <<18210, 6293, 825, 23997, 2>>,
      <<1379, 9858, 9983, 17018, 10>>, <<10650, 1246, 3581, 7216, 4>>,
      <<19183, 32057, 1068, 16154, 13>>, <<8496, 15363, 10476, 322, 13>>,
      <<9519, 20914, 27817, 10387, 6>>, <<26165, 7335, 16673, 15304, 8>>,
      <<15218, 2210, 3775, 3865, 6>>, <<16758, 936, 2006, 29164, 6>>,
      <<10811, 31821, 70, 16562, 11>>, <<7122, 964, 5297, 18975, 7>>,
      <<22403, 1076, 7030, 18165, 13>>, <<15342, 8666, 4761, 13188, 0>>,
      <<14528, 341, 32431, 22903, 3>>, <<14154, 24912, 609, 19702, 6>>,
      <<15231, 212, 4674, 21680, 12>>, <<16973, 22171, 987, 24194, 12>>,
      <<21823, 25121, 7207, 6534, 5>>, <<7646, 12478, 32753, 29229, 11>>,
      <<3638, 26605, 29103, 9369, 12>>, <<309, 1447, 26729, 5046, 12>>,
      <<18944, 22597, 7990, 11060, 9>>, <<3508, 23944, 19135, 390, 4>>,
      <<4808, 32132, 19686, 13259, 8>>, <<25302, 24209, 16994, 1710, 3>>,
      <<31821, 11418, 16125, 6431, 9>>, <<32477, 6130, 29589, 10777, 2>>,
      <<24215, 5929, 22601, 3666, 5>>, <<20079, 31867, 12323, 10403, 7>>,
      <<25230, 14168, 13188, 19397, 5>>, <<10361, 9023, 8124, 16877, 9>>,
      <<15541, 15507, 22497, 1576, 9>>, <<23830, 6584, 25959, 29563, 10>>,
      <<5787, 25799, 9425, 2092, 15>>, <<13181, 19816, 252, 13687, 13>>,
      <<4967, 32307, 24259, 32544, 0>>, <<31317, 16131, 8896, 16454, 6>>,
      <<3385, 31712, 11005, 18123, 14>>, <<25222, 19911, 19027, 13037, 5>>,
      <<9510, 2468, 25674, 9237, 8>>, <<16232, 8502, 30822, 586, 0>>,
      <<11421, 22116, 32178, 23705, 15>>, <<31205, 2809, 19749, 32735, 14>>,
      <<6668, 7879, 17511, 30987, 8>>, <<6419, 10435, 22797, 15362, 0>>,
      <<22729, 28052, 19559, 25913, 10>>, <<16020, 7276, 15581, 2876, 5>>,
      <<10013, 12568, 3983, 31784, 5>>, <<17783, 16656, 10586, 21298, 7>>,
      <<13455, 22344, 9833, 10661, 2>>, <<10884, 371, 5925, 21072, 3>>,
      <<1752, 11563, 1586, 26020, 12>>, <<26652, 14455, 19606, 3215, 0>>,
      <<261, 25363, 5584, 19714, 2>>, <<3198, 29460, 12096, 6918, 14>>,
      <<16989, 26654, 23599, 28870, 14>>, <<20701, 3915, 29793, 23944, 14>>,
      <<29092, 6669, 32206, 13963, 9>>, <<12865, 30357, 18336, 29531, 10>>,
      <<15134, 8407, 27498, 16236, 2>>, <<7439, 16115, 24742, 21289, 15>>,
      <<23638, 6075, 29986, 18076, 11>>, <<572, 6411, 28222, 3922, 6>>,
      <<20378, 19289, 7474, 2028, 5>>, <<26105, 11472, 5237, 11579, 12>>,
      <<22848, 20250, 4802, 5288, 2>>, <<12304, 17674, 13373, 6541, 8>>,
      <<8351, 5414, 780, 13432, 10>>, <<13090, 14616, 24981, 6159, 10>>,
      <<11747, 24758, 14628, 28516, 7>>, <<25132, 27073, 19931, 23229, 13>>,
      <<15060, 16156, 13466, 1043, 15>>, <<32704, 32106, 6342, 2812, 3>>,
      <<22516, 5066, 10786, 17653, 13>>, <<26575, 23341, 8844, 28132, 1>>,
      <<21543, 1378, 5318, 4287, 13>>, <<18697, 8293, 6246, 10470, 8>>,
      <<19361, 17369, 6239, 10237, 8>>, <<32257, 29272, 18021, 28016, 5>>,
      <<24411, 26877, 22741, 16325, 10>>, <<3491, 8118, 19860, 20774, 1>>,
      <<31127, 14794, 16306, 783, 15>>, <<1818, 30489, 13902, 27247, 10>>,
      <<31765, 17800, 3872, 9966, 9>>, <<27786, 20438, 5547, 13252, 12>>,
      <<21641, 29463, 32616, 10390, 11>>, <<10735, 15575, 1115, 2046, 3>>,
      <<12289, 20727, 15286, 8865, 3>>, <<28590, 9762, 23848, 3514, 7>>,
      <<5331, 22013, 10032, 17636, 4>>, <<28068, 15081, 141, 25270, 13>>,
      <<16360, 10452, 24217, 27134, 7>>, <<16970, 8218, 16814, 18086, 4>>,
      <<5318, 20120, 31090, 14927, 15>>, <<6093, 458, 18185, 17753, 15>>,
      <<24979, 16480, 29346, 15720, 13>>, <<31169, 13848, 26702, 13521, 2>>,
      <<12514, 16328, 6351, 18215, 14>>, <<7116, 3254, 247, 5690, 5>>,
      <<6550, 31043, 5922, 26017, 15>>, <<3949, 10085, 15134, 12561, 13>>,
      <<25778, 31448, 29415, 29297, 12>>, <<21727, 1873, 20410, 27091, 11>>,
      <<5877, 28954, 13411, 24000, 1>>, <<20969, 25232, 22713, 4231, 8>>,
      <<5615, 6591, 19256, 820, 7>>, <<9233, 15139, 13531, 18563, 5>>,
      <<30502, 27742, 2006, 1122, 3>>, <<20024, 22606, 19862, 17644, 4>>,
      <<10022, 7448, 30821, 7085, 4>>, <<11841, 17407, 6870, 4223, 9>>,
      <<5455, 30601, 5472, 16363, 5>>, <<16095, 17479, 23659, 21179, 0>>,
      <<22697, 6033, 3484, 14017, 15>>, <<17901, 10694, 6920, 11867, 15>>,
      <<9050, 4756, 24997, 31020, 12>>, <<10925, 6917, 4825, 15593, 5>>,
      <<31102, 17958, 1294, 21256, 13>>, <<31398, 4998, 6811, 30916, 11>>,
      <<27332, 6450, 28799, 32644, 6>>, <<27958, 1523, 15555, 28145, 10>>,
      <<15829, 13182, 8076, 24463, 8>>, <<18927, 28754, 2998, 5235, 8>>,
      <<12766, 20690, 4920, 20868, 4>>, <<26543, 32276, 10384, 30203, 9>>,
      <<16955, 13465, 16744, 6906, 4>>, <<28812, 3200, 31361, 16320, 13>>,
      <<24373, 19203, 25496, 9558, 6>>, <<28516, 31001, 27575, 25430, 13>>,
      <<31724, 28533, 24762, 11637, 2>>, <<5825, 23221, 14694, 19692, 13>>,
      <<29059, 7678, 6851, 4072, 1>>, <<16644, 21416, 9190, 18133, 1>>,
      <<2860, 5398, 5257, 21122, 15>>, <<32012, 17787, 19679, 30856, 11>>,
      <<18977, 2983, 3226, 15987, 11>>, <<12738, 22136, 10304, 19310, 10>>,
      <<9576, 24515, 31257, 10825, 13>>, <<15110, 15876, 2276, 28515, 3>>,
      <<26670, 27063, 10019, 23940, 5>>, <<10275, 22454, 32677, 9442, 10>>,
      <<19419, 30132, 27951, 5942, 11>>, <<30830, 21503, 17205, 3893, 12>>,
      <<2114, 27906, 18260, 13140, 4>>, <<1709, 19338, 6631, 21404, 12>>,
      <<30441, 14717, 9862, 623, 15>>, <<27205, 23124, 30310, 29778, 1>>,
      <<3304, 7400, 25575, 31657, 1>>, <<20270, 31850, 4372, 9237, 2>>,
      <<12895, 5652, 8581, 5154, 5>>, <<20923, 32204, 8690, 20811, 7>>,
      <<18886, 7461, 13427, 31672, 0>>, <<23627, 9211, 13195, 1378, 13>>,
      <<16291, 3664, 883, 30705, 7>>, <<20167, 18254, 13153, 3492, 1>>,
      <<28357, 9266, 31136, 10744, 12>>, <<15122, 116, 29434, 26036, 5>>,
      <<26550, 3029, 3671, 29269, 12>>, <<17257, 233, 19673, 8346, 9>>,
      <<26493, 13743, 18644, 6263, 5>>, <<12399, 29835, 22663, 8978, 4>>,
      <<17315, 10024, 31456, 5628, 7>>, <<25874, 4594, 24854, 8761, 5>>,
      <<1053, 17378, 32128, 10999, 7>>, <<4092, 4709, 25329, 28036, 15>>,
      <<23354, 1526, 5267, 25977, 2>>, <<13851, 28769, 28034, 13376, 3>>,
      <<24483, 8483, 12115, 3615, 10>>, <<28343, 4651, 9178, 4561, 6>>,
      <<3178, 7756, 14893, 17293, 15>>, <<10997, 2591, 6135, 16693, 7>>,
      <<24371, 15832, 23002, 24647, 7>>, <<23097, 23394, 1649, 30234, 4>>,
      <<8603, 21498, 25754, 12619, 8>>, <<6955, 7202, 21723, 5794, 7>>,
      <<2653, 4055, 2587, 20066, 9>>, <<24393, 28840, 22340, 13326, 1>>,
      <<5703, 9275, 13312, 20582, 8>>, <<12617, 17120, 3216, 5906, 10>>,
      <<5856, 5920, 26943, 20628, 0>>, <<5376, 23331, 10187, 4332, 5>>,
      <<5443, 26653, 27630, 28810, 15>>, <<2049, 9604, 18281, 30019, 15>>,
      <<11739, 30182, 22597, 28677, 8>>, <<28522, 8533, 10972, 2399, 11>>,
      <<32751, 32503, 15786, 22601, 15>>, <<19823, 29300, 7498, 13450, 11>>,
      <<28098, 16966, 21709, 32503, 0>>, <<20224, 26859, 29273, 14518, 1>>,
      <<31329, 384, 18964, 15336, 11>>, <<21163, 7296, 18081, 19277, 9>>,
      <<12422, 13206, 2644, 31547, 2>>, <<24510, 22366, 23542, 11275, 7>>,
      <<9814, 11522, 14439, 15637, 9>>, <<1533, 23315, 21213, 8562, 4>>,
      <<16573, 22941, 25104, 21832, 11>>, <<7236, 13203, 7056, 11486, 5>>,
      <<6813, 16975, 21216, 4911, 11>>, <<6645, 4933, 2740, 14334, 10>>,
      <<28706, 18919, 4287, 3557, 1>>, <<28325, 8451, 11681, 21380, 4>>,
      <<27883, 23166, 31772, 19162, 13>>, <<16657, 12125, 114, 26550, 7>>,
      <<21670, 28525, 6143, 21664, 4>>, <<13238, 15100, 31659, 17864, 0>>,
      <<12983, 5472, 30030, 20668, 0>>, <<13458, 28, 19315, 5788, 2>>,
      <<17425, 7133, 13710, 20128, 11>>, <<12486, 13739, 16803, 16314, 3>>,
      <<23988, 636, 27056, 20396, 3>>, <<19264, 30761, 23113, 6902, 9>>,
      <<9107, 23396, 30931, 1563, 12>>, <<2837, 11750, 25965, 20522, 2>>,
      <<4359, 2474, 23137, 28462, 11>>, <<341, 12022, 11451, 14867, 11>>,
      <<8710, 12297, 23618, 3025, 9>>, <<14071, 12951, 114, 31929, 1>>,
      <<1658, 4818, 29357, 22486, 4>>, <<7329, 26257, 17742, 6889, 10>>,
      <<20706, 2303, 13525, 18361, 9>>, <<16303, 26251, 15250, 32214, 4>>,
      <<3880, 26188, 7211, 13298, 12>>, <<15193, 5010, 6102, 10204, 7>>,
      <<30280, 11470, 18274, 31288, 5>>, <<1626, 31431, 23440, 32569, 15>>,
      <<26684, 13460, 10297, 26117, 7>>, <<5789, 22419, 29328, 18215, 9>>,
      <<8577, 19581, 5611, 16698, 9>>, <<7540, 25560, 803, 15680, 11>>,
      <<26231, 24077, 20719, 9375, 1>>, <<8217, 3450, 13494, 28129, 10>>,
      <<1948, 28903, 28187, 3306, 7>>, <<2454, 17507, 13781, 20192, 4>>,
      <<24705, 27415, 29029, 17089, 3>>, <<8911, 11285, 4404, 18126, 13>>,
      <<8888, 13252, 16130, 20287, 3>>, <<11553, 23503, 27085, 28626, 14>>,
      <<25583, 5748, 18337, 4875, 14>>, <<18452, 11637, 26796, 262, 2>>,
      <<25603, 13306, 20865, 15609, 1>>, <<19970, 29442, 22992, 4869, 8>>,
      <<10230, 26656, 11293, 4443, 8>>, <<24544, 27204, 5508, 5766, 15>>,
      <<16640, 739, 19971, 7844, 12>>, <<29179, 8904, 9342, 3476, 5>>,
      <<15994, 10744, 32625, 15737, 15>>, <<16227, 4381, 23187, 25998, 1>>,
      <<2684, 17730, 6993, 5596, 2>>, <<31802, 57, 30672, 20288, 6>>,
      <<24133, 443, 18866, 22297, 0>>, <<31711, 4143, 29679, 29811, 7>>,
      <<3348, 223, 1405, 28674, 14>>, <<14501, 10532, 8616, 12400, 14>>,
      <<6102, 10068, 20508, 22023, 9>>, <<24555, 12996, 8907, 1508, 8>>,
      <<2259, 15965, 5091, 15234, 9>>, <<30754, 5478, 11800, 2764, 14>>,
      <<14092, 8504, 15107, 29445, 12>>, <<14619, 27889, 17958, 16983, 14>>,
      <<13203, 15639, 2363, 4177, 5>>, <<5357, 14821, 30051, 16473, 2>>,
      <<4751, 14511, 30744, 21012, 10>>, <<20506, 6723, 10367, 17151, 10>>,
      <<15775, 17401, 2225, 21256, 0>>, <<8160, 19243, 13564, 32373, 14>>,
      <<18795, 14209, 13741, 22971, 6>>, <<25763, 8499, 119, 28220, 1>>,
      <<45, 352, 1324, 30286, 3>>, <<10256, 30671, 25623, 20763, 14>>,
      <<12527, 12998, 12756, 6624, 15>>, <<28459, 32200, 16194, 16348, 10>>,
      <<31244, 6931, 20586, 26267, 0>>, <<21108, 31170, 32038, 18086, 8>>,
      <<25185, 16263, 21136, 20015, 12>>, <<7455, 21647, 15874, 2533, 14>>,
      <<16495, 12766, 6212, 24971, 2>>, <<4911, 10937, 19772, 17573, 1>>,
      <<28783, 6189, 26371, 6327, 13>>, <<11497, 15055, 1132, 15761, 15>>,
      <<7022, 14556, 10962, 29844, 14>>, <<12915, 13356, 20360, 96, 13>>,
      <<11973, 1746, 739, 17707, 0>>, <<29994, 19018, 6037, 22819, 4>>,
      <<30350, 18593, 25647, 14252, 5>>, <<8618, 26532, 32605, 26651, 3>>,
      <<12520, 4415, 18579, 19540, 1>>, <<31345, 29503, 10300, 19181, 9>>,
      <<24721, 9714, 23065, 16044, 11>>>>

\* the word of the key of ordinal k, as five digits
KeyWord(k) == ZobristWords[k + 1]

\* a ^ b on numbers below 2^15
RECURSIVE XorDigit(_, _)
XorDigit(a, b) ==
    IF a = 0 THEN b
    ELSE IF b = 0 THEN a
    ELSE ((a + b) % 2) + 2 * XorDigit(a \div 2, b \div 2)

\* a ^ b on words of five digits
XorWord(a, b) == [i \in 1..5 |-> XorDigit(a[i], b[i])]

RECURSIVE XorWords(_)
XorWords(h) ==
    IF h = {} THEN <<0, 0, 0, 0, 0>>
    ELSE LET k == CHOOSE x \in h : \A y \in h : x <= y
         IN  XorWord(KeyWord(k), XorWords(h \ {k}))

HashWord(h) == BnNorm(XorWords(h))

(***************************************************************************)
(* search.rs: SearchEngine::search as a machine.  stack maps a thread to   *)
(* its call stack: thread 0 runs search, threads 1.. are the parallel      *)
(* closures of search_root.  A frame holds the locals of a call and, in    *)
(* pc, the place where it continues; a call that has returned leaves a     *)
(* "ret" frame with its value for its caller.                              *)
(***************************************************************************)
\* history: no iteration of the running search has run to completion yet
NoIteration == [best_move |-> None, score |-> 0]

\* completed: what search had recorded when its last uninterrupted
\* iteration ended; cut: the depth of the iteration the stop flag
\* interrupted, 0 if none; partial: what that iteration returned
\* command: the last command the UCI adapter handled; handled: the commands
\* it has handled, in order, each go with its board, arguments and answer
NoCommand ==
    [op |-> "none", before |-> None, fen_given |-> FALSE,
     fen_ok |-> FALSE, fen_valid |-> FALSE, expected |-> None]

NoHistory ==
    [completed |-> NoIteration, cut |-> 0, partial |-> NoIteration,
     command |-> NoCommand, handled |-> <<>>]

Ret(v) == [fn |-> "ret", pc |-> "ret", val |-> v]

Top(c) == stack[c][Len(stack[c])]

Under(c) == stack[c][Len(stack[c]) - 1]

\* the stacks once the top frame of thread c is replaced by frames
ReplaceTop(c, frames) ==
    [stack EXCEPT ![c] = SubSeq(@, 1, Len(@) - 1) \o frames]

\* the stacks once the ret frame of thread c and the caller under it are
\* replaced by frames
ReplaceCaller(c, frames) ==
    [stack EXCEPT ![c] = SubSeq(@, 1, Len(@) - 2) \o frames]

At(c, fn, pcs) ==
    /\ ~panicked
    /\ stack[c] # <<>>
    /\ Top(c).fn = fn
    /\ Top(c).pc \in pcs

Returned(c, fn, pcs) ==
    /\ ~panicked
    /\ Len(stack[c]) >= 2
    /\ Top(c).fn = "ret"
    /\ Under(c).fn = fn
    /\ Under(c).pc \in pcs

Searching == stack[0] # <<>>

SearchResult(best_move, score, nodes, pv_lines) ==
    [best_move |-> best_move, score |-> score, nodes |-> nodes, pv_lines |-> pv_lines]

\* check_time_abort: whether to abort, and the engine with the stop flag
\* it may have stored
check_time_abort(e, clk) ==
    IF e.stop THEN [abort |-> TRUE, engine |-> e]
    ELSE IF clk.time_ms # None /\ BnCmp(clk.elapsed, clk.time_ms[1]) > 0
    THEN [abort |-> TRUE, engine |-> [e EXCEPT !.stop = TRUE]]
    ELSE [abort |-> FALSE, engine |-> e]

SearchFrame(max_depth) ==
    [fn |-> "search", pc |-> "loop", depth |-> 1, max_depth |-> max_depth,
     best_move |-> None, best_score |-> 0, prev_score |-> 0]

AspirationFrame(depth, prev_score) ==
    [fn |-> "aspiration", pc |-> "wait", depth |-> depth, prev_score |-> prev_score,
     window |-> 50, alpha |-> prev_score - 50, beta |-> prev_score + 50,
     fail_high_count |-> 0, fail_low_count |-> 0]

RootFrame(depth, alpha, beta) ==
    [fn |-> "root", pc |-> "begin", depth |-> depth, alpha |-> alpha, beta |-> beta,
     guard |-> FALSE]

\* lines 382-389: search_root_thread up to its loop
RootThreadFrame(b, depth, alpha, beta, thread_id, td) ==
    [fn |-> "root_thread", pc |-> "loop", board |-> b, depth |-> depth,
     alpha |-> alpha, beta |-> beta, thread_id |-> thread_id,
     moves |-> order_moves_internal(b, generate_legal_moves(b), None, 0, td),
     i |-> 1, best_move |-> None, best_score |-> -INFINITY, best_pv |-> <<>>,
     move_count |-> 0]

PvsFrame(b, depth, alpha, beta, ply, pv_node, thread_id) ==
    [fn |-> "pvs", pc |-> "enter", board |-> b, depth |-> depth, alpha |-> alpha,
     beta |-> beta, ply |-> ply, pv_node |-> pv_node, thread_id |-> thread_id,
     in_check |-> FALSE, static_eval |-> 0, tt_move |-> None, r |-> 0,
     null_score |-> 0, moves |-> <<>>, i |-> 1, best_score |-> -INFINITY,
     best_move |-> None, move_count |-> 0, alpha_orig |-> alpha,
     quiets_tried |-> <<>>, extension |-> 0, reduction |-> 0]

\* the closure search_root maps over the thread ids
WorkerFrame(depth, alpha, beta, thread_id) ==
    [fn |-> "worker", pc |-> "begin", depth |-> depth, alpha |-> alpha,
     beta |-> beta, thread_id |-> thread_id]

(***************************************************************************)
(* The locks of the engine.  `tt` is an RwLock: a thread holds it shared   *)
(* from read() to the end of the statement that probes (lines 502, 570)    *)
(* and exclusively from write() to the end of the statement that stores    *)
(* (lines 721, 736); what the thread does before such a statement is done  *)
(* when it comes to wait for the lock.  thread_data[i] is a Mutex: search_root holds the one *)
(* of thread 0 while it orders the root moves (lines 305-307), and         *)
(* search_root_thread holds the one of its thread id from line 383 until   *)
(* it returns.  Who holds what is read off the stacks: the pc of a frame   *)
(* says that its thread is inside such a statement.                        *)
(***************************************************************************)
\* the thread c holds the table lock shared
TtReads(c) ==
    /\ stack[c] # <<>>
    /\ \/ Top(c).fn = "pvs" /\ Top(c).pc = "probing"
       \/ /\ Len(stack[c]) >= 2
          /\ Top(c).fn = "ret"
          /\ Under(c).fn = "pvs"
          /\ Under(c).pc = "reprobing"

\* the thread c holds the table lock exclusively
TtWrites(c) ==
    /\ stack[c] # <<>>
    /\ Top(c).fn = "pvs"
    /\ Top(c).pc \in {"storing", "cutting"}

\* RwLock::read and RwLock::write return
TtFreeToRead(c) == \A d \in DOMAIN stack \ {c} : ~TtWrites(d)

TtFreeToWrite(c) == \A d \in DOMAIN stack \ {c} : ~TtWrites(d) /\ ~TtReads(d)

\* the threads that hold the mutex of thread_data[thread_id]
MutexHolders(thread_id) ==
    {c \in DOMAIN stack :
        \E i \in DOMAIN stack[c] :
            \/ stack[c][i].fn = "root_thread" /\ stack[c][i].thread_id = thread_id
            \/ stack[c][i].fn = "root" /\ stack[c][i].guard /\ thread_id = 0}

\* Mutex::lock returns for the thread c
MutexFree(c, thread_id) == MutexHolders(thread_id) \subseteq {c}

\* lines 540-553 and 634-683: the call pvs makes next when a call it made
\* returns val, none when it goes on with the value (lines 567-572 after
\* internal iterative deepening, 685-727 after the search of a move)
pvs_resumed(f, val) ==
    LET b == f.board
        mate_cut(x) == IF x > MATE_SCORE - 100 THEN f.beta ELSE x
        mv == f.moves[f.i]
        full_depth == saturating_add(saturating_sub(f.depth, 1), f.extension)
        child(pc, alpha, beta, pv_node) ==
            <<[f EXCEPT !.pc = pc],
              PvsFrame(make_move(b, mv), full_depth, alpha, beta, f.ply + 1,
                       pv_node, f.thread_id)>>
        in_window == -val > f.alpha /\ -val < f.beta /\ f.pv_node
    IN  CASE f.pc = "null" ->
               IF -val >= f.beta
               THEN IF f.depth < 12 THEN <<Ret(mate_cut(-val))>>
                    ELSE <<[f EXCEPT !.pc = "verify", !.null_score = -val],
                           PvsFrame(b, saturating_sub(f.depth, f.r), f.beta - 1,
                                    f.beta, f.ply, FALSE, f.thread_id)>>
               ELSE <<[f EXCEPT !.pc = "razor"]>>
          [] f.pc = "verify" ->
               IF val >= f.beta THEN <<Ret(mate_cut(f.null_score))>>
               ELSE <<[f EXCEPT !.pc = "razor"]>>
          [] f.pc = "nullwin" ->
               IF f.reduction > 0 /\ -val > f.alpha
               THEN child("reduced", -f.alpha - 1, -f.alpha, FALSE)
               ELSE IF in_window THEN child("full", -f.beta, -f.alpha, TRUE)
               ELSE <<>>
          [] f.pc = "reduced" ->
               IF in_window THEN child("full", -f.beta, -f.alpha, TRUE)
               ELSE <<>>
          [] OTHER -> <<>>

\* lines 594-599: the move loop of the frame f has no move left, or its
\* time check breaks out of it
PvsLoopEnds(f) == f.i > Len(f.moves) \/ check_time_abort(engine, clock).abort

\* lines 721 and 736: the pvs frame on top of thread c is at a
\* `self.tt.write()`, after the loop has ended ("ended") or after the
\* updates of a cutoff ("cut")
PvsWrites(c) ==
    /\ stack[c] # <<>>
    /\ Top(c).fn = "pvs"
    /\ Top(c).pc \in {"ended", "cut"}

\* `self.tt.read()` of lines 502 and 570
TtRead(c) ==
    /\ ~panicked
    /\ TtFreeToRead(c)
    /\ IF At(c, "pvs", {"probe"})
       THEN stack' = ReplaceTop(c, <<[Top(c) EXCEPT !.pc = "probing"]>>)
       ELSE /\ Returned(c, "pvs", {"iid"})
            /\ stack' = ReplaceCaller(c, <<[Under(c) EXCEPT !.pc = "reprobing"],
                                           Top(c)>>)
    /\ UNCHANGED <<board, budget, lastMove, tt, engine, clock, result, uci,
                   panicked, hist>>

\* `self.tt.write()` of lines 721 and 736
TtWrite(c) ==
    /\ ~panicked
    /\ PvsWrites(c)
    /\ TtFreeToWrite(c)
    /\ stack' = ReplaceTop(c, <<[Top(c) EXCEPT
                                   !.pc = IF @ = "ended" THEN "storing" ELSE "cutting"]>>)
    /\ UNCHANGED <<board, budget, lastMove, tt, engine, clock, result, uci, panicked,
                   hist>>

\* the f64 of the literals 0.4, 0.9 and 1.5 of lines 144, 220 and 212
F64_0_4 == F64Div(1, BnFromInt(4), BnFromInt(10))

F64_0_9 == F64Div(1, BnFromInt(9), BnFromInt(10))

F64_1_5 == F64Div(1, BnFromInt(3), BnFromInt(2))

\* line 144: `time_limit.map(|t| t.mul_f64(0.4))` of the limit time_ms
soft_limit(time_ms) == mul_f64(from_millis(time_ms), F64_0_4)

\* the readings of start_time.elapsed() a search with the limit time_ms is
\* followed at, which the clock of a run holds from the start of the search
\* as the lines a run reads are held from its start: the first ms, and the
\* first ms past each limit the search
\* compares the clock with: the soft limit (line 209), one and a half
\* times the ms of the soft limit (line 212), nine tenths of the hard limit
\* (line 220) and the hard limit (line 944).  Line 210 divides two rounded
\* numbers and rounds the quotient, so that from a soft limit of 2^50 ms
\* on the first ms past one and a half times the limit need not pass the
\* test of line 212; the reading soft_ms / 2^50 after it does.
ReadingsPast(time_ms, soft_ms, hard_9) ==
    {BnFromInt(ms) : ms \in 0..MaxElapsed}
       \cup {BnAdd(soft_ms, <<1>>),
             BnAdd(BnDivSmall(BnMulSmall(soft_ms, 3), 2), <<1>>),
             BnAdd(BnAdd(BnDivSmall(BnMulSmall(soft_ms, 3), 2), <<1>>), BnShr(soft_ms, 50)),
             BnAdd(as_millis(hard_9), <<1>>),
             BnAdd(time_ms, <<1>>)}

ClockReadings(time_ms) ==
    ReadingsPast(time_ms, as_millis(soft_limit(time_ms)),
                 mul_f64(from_millis(time_ms), F64_0_9))

\* lines 104-131 of search: the counters and the stop flag reset, the
\* thread data cleared, the opening book probed, the clock started.  A book
\* move that is legal is returned at once; otherwise the loop is entered.
SearchStart(b, max_depth, time_ms) ==
    \E book_move \in (IF b.fullmove_number <= 15 THEN probe_book(to_fen(b)) ELSE {None}) :
        \E hits \in {IF book_move = None THEN <<>>
                     ELSE SelectSeq(generate_legal_moves(b),
                                    LAMBDA mv : to_uci(mv) = book_move[1])} :
            /\ engine' = [engine EXCEPT
                             !.nodes = 0,
                             !.stop = FALSE,
                             !.thread_data = [t \in DOMAIN @ |-> ThreadData_new]]
            /\ clock' = [elapsed |-> <<>>, time_ms |-> time_ms,
                         readings |-> IF time_ms = None THEN {}
                                      ELSE ClockReadings(time_ms[1])]
            /\ hist' = [hist EXCEPT !.completed = NoIteration, !.cut = 0,
                                    !.partial = NoIteration]
            /\ IF hits # <<>>
               THEN /\ result' = Some(SearchResult(Some(hits[1]), 0, 0, <<<<hits[1], 0>>>>))
                    /\ stack' = stack
               ELSE /\ result' = None
                    /\ stack' = [stack EXCEPT ![0] = <<SearchFrame(max_depth)>>]

\* lines 226-231
SearchReturn(f) ==
    /\ result' = Some(SearchResult(f.best_move, f.best_score, engine.nodes, <<>>))
    /\ stack' = [stack EXCEPT ![0] = <<>>]

\* lines 139-151: the head of the iterative deepening loop
SearchIterate ==
    /\ At(0, "search", {"loop"})
    /\ LET f == Top(0)
       IN  IF f.depth > f.max_depth \/ engine.stop
           THEN SearchReturn(f)
           ELSE /\ stack' = ReplaceTop(0,
                       <<[f EXCEPT !.pc = "wait"]>>
                       \o (IF f.depth >= 5
                           THEN <<AspirationFrame(f.depth, f.prev_score),
                                  RootFrame(f.depth, f.prev_score - 50, f.prev_score + 50)>>
                           ELSE <<RootFrame(f.depth, -INFINITY, INFINITY)>>))
                /\ result' = result
    /\ UNCHANGED <<board, budget, lastMove, tt, engine, clock, uci, panicked, hist>>

\* lines 210 and 212:
\* `elapsed.as_millis() as f64 / soft.as_millis() as f64 > 1.5`; the
\* quotient by 0 is infinite, and not a number, which no number is below,
\* when the dividend is 0 too
time_ratio_above(elapsed_ms, soft_ms) ==
    IF soft_ms = <<>> THEN elapsed_ms # <<>>
    ELSE F64Greater(F64Div(1, F64Integer(F64FromNat(elapsed_ms)),
                           F64Integer(F64FromNat(soft_ms))),
                    F64_1_5)

\* lines 209-215: whether the soft limit ends the loop, the clock reading
\* elapsed_ms
SoftLimitEnds(elapsed_ms, soft, score, score_drop) ==
    /\ DurationGreater(from_millis(elapsed_ms), soft)
    /\ \/ score < -500
       \/ /\ time_ratio_above(elapsed_ms, as_millis(soft))
          /\ Abs(score_drop) < 30

\* lines 157-223: the result of an iteration recorded, and the limits that
\* end the loop after it
SearchRecord(f, v) ==
    LET score == v[1]
        mv == v[2]
        score_drop == f.prev_score - score
        should_reject == /\ f.depth > 7
                         /\ f.best_move # None
                         /\ score_drop > 250
                         /\ f.prev_score > -400
                         /\ f.prev_score < MATE_SCORE - 1000
        f1 == IF mv # None /\ ~should_reject
              THEN [f EXCEPT !.best_move = mv, !.best_score = score, !.prev_score = score]
              ELSE f
        soft_break == /\ mv # None
                      /\ clock.time_ms # None
                      /\ SoftLimitEnds(clock.elapsed, soft_limit(clock.time_ms[1]),
                                       score, score_drop)
        hard_break == /\ clock.time_ms # None
                      /\ DurationGreater(from_millis(clock.elapsed),
                                         mul_f64(from_millis(clock.time_ms[1]), F64_0_9))
    IN  IF (mv # None /\ should_reject) \/ soft_break \/ hard_break
        THEN [break |-> TRUE, frame |-> f1]
        ELSE [break |-> FALSE, frame |-> [f1 EXCEPT !.depth = f.depth + 1, !.pc = "loop"]]

\* the loop body without the break of lines 153-155
SearchIterationDone_NoStopBreak(f, v) == SearchRecord(f, v)

\* lines 153-224: what the loop does with the result of an iteration
SearchIterationDone(f, v) ==
    IF engine.stop /\ f.depth > 1 THEN [break |-> TRUE, frame |-> f]
    ELSE SearchRecord(f, v)

SearchResumed ==
    /\ Returned(0, "search", {"wait"})
    /\ LET v == Top(0).val
           f == Under(0)
       IN  \E r \in {SearchIterationDone(f, v)} :
               /\ IF r.break THEN SearchReturn(r.frame)
                  ELSE /\ stack' = ReplaceCaller(0, <<r.frame>>)
                       /\ result' = result
               /\ hist' = IF engine.stop
                          THEN [hist EXCEPT !.cut = f.depth,
                                            !.partial = [best_move |-> v[2], score |-> v[1]]]
                          ELSE [hist EXCEPT !.completed =
                                   [best_move |-> r.frame.best_move,
                                    score |-> r.frame.best_score]]
    /\ UNCHANGED <<board, budget, lastMove, tt, engine, clock, uci, panicked>>

\* lines 252-276 of search_aspiration
AspirationResumed ==
    /\ Returned(0, "aspiration", {"wait"})
    /\ LET v == Top(0).val
           f == Under(0)
           score == v[1]
           low == score <= f.alpha
           high == ~low /\ score >= f.beta
           fail_low_count == f.fail_low_count + (IF low THEN 1 ELSE 0)
           fail_high_count == f.fail_high_count + (IF high THEN 1 ELSE 0)
           beta == IF low THEN div_trunc(f.alpha + f.beta, 2)
                   ELSE Min(f.beta + f.window * (1 + fail_high_count), INFINITY)
           alpha == IF low THEN Max(f.alpha - f.window * (1 + fail_low_count), -INFINITY)
                    ELSE f.alpha
           f1 == [f EXCEPT !.alpha = alpha, !.beta = beta,
                           !.fail_low_count = fail_low_count,
                           !.fail_high_count = fail_high_count,
                           !.window = Min(f.window * 2, 1000)]
       IN  stack' = ReplaceCaller(0,
               IF engine.stop THEN <<Ret(<<f.prev_score, v[2], v[3]>>)>>
               ELSE IF ~low /\ ~high THEN <<Ret(v)>>
               ELSE IF fail_high_count + fail_low_count > 5
               THEN <<[f1 EXCEPT !.pc = "final"], RootFrame(f.depth, -INFINITY, INFINITY)>>
               ELSE <<f1, RootFrame(f.depth, alpha, beta)>>)
    /\ UNCHANGED <<board, budget, lastMove, tt, engine, clock, result, uci, panicked, hist>>

\* search_root that goes into the parallel search with the guard of line
\* 305 still alive
RootBegin_KeepsGuard ==
    /\ At(0, "root", {"begin"})
    /\ \E checked \in BOOLEAN :
       \E overflows \in {checked /\ generate_legal_moves_overflows(board)} :
       \E moves \in {generate_legal_moves(board)} :
       LET f == Top(0)
           parallel == engine.threads > 1 /\ f.depth >= 6
       IN  /\ panicked' = overflows
           /\ stack' =
               IF overflows THEN stack
               ELSE IF moves = <<>>
               THEN ReplaceTop(0, <<Ret(<<IF is_in_check(board, board.side_to_move)
                                         THEN -MATE_SCORE ELSE 0, None, <<>>>>)>>)
               ELSE IF Len(moves) = 1
               THEN ReplaceTop(0, <<Ret(<<0, Some(moves[1]), <<moves[1]>>>>)>>)
               ELSE IF parallel
               THEN [c \in 0..engine.threads |->
                       IF c = 0 THEN ReplaceTop(0, <<[f EXCEPT !.pc = "join",
                                                      !.guard = TRUE]>>)[0]
                       ELSE <<WorkerFrame(f.depth, f.alpha, f.beta, c - 1)>>]
               ELSE ReplaceTop(0, <<[f EXCEPT !.pc = "single"],
                                    RootThreadFrame(board, f.depth, f.alpha, f.beta, 0,
                                                    engine.thread_data[0])>>)
    /\ UNCHANGED <<board, budget, lastMove, tt, engine, clock, result, uci, hist>>

\* lines 290-341 and 351-362 of search_root: the terminal root, the single
\* move, and the start of the parallel or of the single-threaded search
RootBegin ==
    /\ At(0, "root", {"begin"})
    /\ \E checked \in BOOLEAN :
       \E overflows \in {checked /\ generate_legal_moves_overflows(board)} :
       \E moves \in {generate_legal_moves(board)} :
       LET f == Top(0)
           parallel == engine.threads > 1 /\ f.depth >= 6
       IN  /\ panicked' = overflows
           /\ stack' =
               IF overflows THEN stack
               ELSE IF moves = <<>>
               THEN ReplaceTop(0, <<Ret(<<IF is_in_check(board, board.side_to_move)
                                         THEN -MATE_SCORE ELSE 0, None, <<>>>>)>>)
               ELSE IF Len(moves) = 1
               THEN ReplaceTop(0, <<Ret(<<0, Some(moves[1]), <<moves[1]>>>>)>>)
               ELSE IF parallel
               THEN [c \in 0..engine.threads |->
                       IF c = 0 THEN ReplaceTop(0, <<[f EXCEPT !.pc = "join"]>>)[0]
                       ELSE <<WorkerFrame(f.depth, f.alpha, f.beta, c - 1)>>]
               ELSE ReplaceTop(0, <<[f EXCEPT !.pc = "single"],
                                    RootThreadFrame(board, f.depth, f.alpha, f.beta, 0,
                                                    engine.thread_data[0])>>)
    /\ UNCHANGED <<board, budget, lastMove, tt, engine, clock, result, uci, hist>>

\* the closure of a thread id that, finding the flag set, waits for it to
\* clear instead of returning
WorkerBegin_WaitsOnStop(c) ==
    /\ c # 0
    /\ At(c, "worker", {"begin"})
    /\ engine.stop \/ MutexFree(c, Top(c).thread_id)
    /\ LET f == Top(c)
           offset == (f.thread_id % 4) - 1
           depth_variation == IF f.thread_id > 0
                              THEN Min(Max(f.depth + offset, 1), f.depth)
                              ELSE f.depth
       IN  stack' = ReplaceTop(c,
               IF engine.stop THEN <<[f EXCEPT !.pc = "parked"]>>
               ELSE <<[f EXCEPT !.pc = "wait"],
                      RootThreadFrame(board, depth_variation, f.alpha, f.beta,
                                      f.thread_id, engine.thread_data[f.thread_id])>>)
    /\ UNCHANGED <<board, budget, lastMove, tt, engine, clock, result, uci, panicked, hist>>

\* lines 317-340: the closure of one thread id
WorkerBegin(c) ==
    /\ c # 0
    /\ At(c, "worker", {"begin"})
    /\ engine.stop \/ MutexFree(c, Top(c).thread_id)
    /\ LET f == Top(c)
           offset == (f.thread_id % 4) - 1
           depth_variation == IF f.thread_id > 0
                              THEN Min(Max(f.depth + offset, 1), f.depth)
                              ELSE f.depth
       IN  stack' = ReplaceTop(c,
               IF engine.stop THEN <<Ret(<<-INFINITY, None, <<>>>>)>>
               ELSE <<[f EXCEPT !.pc = "wait"],
                      RootThreadFrame(board, depth_variation, f.alpha, f.beta,
                                      f.thread_id, engine.thread_data[f.thread_id])>>)
    /\ UNCHANGED <<board, budget, lastMove, tt, engine, clock, result, uci, panicked, hist>>

\* the best of the results of the threads 1..n, taken in this order
RECURSIVE SelectBest(_, _, _)
SelectBest(results, i, best) ==
    IF i > Len(results) THEN best
    ELSE SelectBest(results, i + 1, IF results[i][1] > best[1] THEN results[i] ELSE best)

\* lines 341-350 and 368: collect, once every closure has returned
RootJoin ==
    /\ At(0, "root", {"join"})
    /\ \A c \in DOMAIN stack \ {0} : Len(stack[c]) = 1 /\ stack[c][1].fn = "ret"
    /\ LET results == [c \in 1..engine.threads |-> stack[c][1].val]
       IN  stack' = [c \in {0} |->
                        ReplaceTop(0, <<Ret(SelectBest(results, 1,
                                                       <<-INFINITY, None, <<>>>>))>>)[0]]
    /\ UNCHANGED <<board, budget, lastMove, tt, engine, clock, result, uci, panicked, hist>>

\* a call whose caller returns the value it gets: line 275, lines 363-368,
\* line 330
PassReturn(c) ==
    /\ ~panicked
    /\ Len(stack[c]) >= 2
    /\ Top(c).fn = "ret"
    /\ <<Under(c).fn, Under(c).pc>> \in
          {<<"aspiration", "final">>, <<"root", "single">>, <<"worker", "wait">>}
    /\ stack' = ReplaceCaller(c, <<Top(c)>>)
    /\ UNCHANGED <<board, budget, lastMove, tt, engine, clock, result, uci, panicked, hist>>

\* lines 391-411 of search_root_thread: the next move of the loop
RootThreadMove(c) ==
    /\ At(c, "root_thread", {"loop"})
    /\ LET f == Top(c)
           done == <<Ret(<<f.best_score, f.best_move, f.best_pv>>)>>
           ab == check_time_abort(engine, clock)
       IN  IF f.i > Len(f.moves)
           THEN /\ stack' = ReplaceTop(c, done)
                /\ engine' = engine
           ELSE /\ engine' = ab.engine
                /\ stack' = ReplaceTop(c,
                       IF ab.abort THEN done
                       ELSE IF f.move_count = 0
                       THEN <<[f EXCEPT !.pc = "first"],
                              PvsFrame(make_move(f.board, f.moves[f.i]), f.depth - 1,
                                       -f.beta, -f.alpha, 1, TRUE, f.thread_id)>>
                       ELSE <<[f EXCEPT !.pc = "nullwin"],
                              PvsFrame(make_move(f.board, f.moves[f.i]), f.depth - 1,
                                       -f.alpha - 1, -f.alpha, 1, FALSE, f.thread_id)>>)
    /\ UNCHANGED <<board, budget, lastMove, tt, clock, result, uci, panicked, hist>>

\* lines 399-440: the score of the move in hand
RootThreadResumed(c) ==
    /\ Returned(c, "root_thread", {"first", "nullwin", "full"})
    /\ LET f == Under(c)
           mv == f.moves[f.i]
           score == -Top(c).val
           td == engine.thread_data[f.thread_id]
           better == score > f.best_score
           f1 == [f EXCEPT !.move_count = f.move_count + 1,
                           !.best_score = IF better THEN score ELSE @,
                           !.best_move = IF better THEN Some(mv) ELSE @,
                           !.best_pv = IF better THEN <<mv>> \o pv_at(td, 1) ELSE @,
                           !.alpha = Max(f.alpha, score),
                           !.i = f.i + 1,
                           !.pc = "loop"]
       IN  IF f.pc = "nullwin" /\ score > f.alpha /\ score < f.beta
           THEN /\ stack' = ReplaceCaller(c,
                       <<[f EXCEPT !.pc = "full"],
                         PvsFrame(make_move(f.board, mv), f.depth - 1,
                                  -f.beta, -f.alpha, 1, TRUE, f.thread_id)>>)
                /\ engine' = engine
           ELSE IF score >= f.beta
           THEN /\ stack' = ReplaceCaller(c,
                       <<Ret(<<f1.best_score, f1.best_move, f1.best_pv>>)>>)
                /\ engine' = [engine EXCEPT !.thread_data[f.thread_id] =
                                 update_history_internal(mv, f.depth,
                                     update_killers_internal(mv, 0, td))]
           ELSE /\ stack' = ReplaceCaller(c, <<f1>>)
                /\ engine' = engine
    /\ UNCHANGED <<board, budget, lastMove, tt, clock, result, uci, panicked, hist>>

(***************************************************************************)
(* search.rs: SearchEngine::pvs                                            *)
(***************************************************************************)
\* a panic: the process is gone, nothing else changes
Panic ==
    /\ panicked' = TRUE
    /\ UNCHANGED <<tt, engine, stack>>

\* lines 461-499: node count, periodic time check, stop check, draws, mate
\* distance pruning, check extension, quiescence at depth 0
PvsEnter(c) ==
    /\ At(c, "pvs", {"enter"})
    /\ LET f == Top(c)
           td == engine.thread_data[f.thread_id]
           n == td.nodes_searched + 1
           periodic == n % 2048 = 0
           e1 == [engine EXCEPT
                     !.nodes = IF periodic THEN @ + 2048 ELSE @,
                     !.thread_data[f.thread_id].nodes_searched =
                         IF periodic THEN 0 ELSE n]
           ab == IF periodic THEN check_time_abort(e1, clock)
                 ELSE [abort |-> FALSE, engine |-> e1]
           early == \/ ab.abort
                    \/ ab.engine.stop
                    \/ f.board.halfmove_clock >= 100
                    \/ is_repetition(f.board)
           alpha == Max(f.alpha, -MATE_SCORE + f.ply)
           beta_new == Min(f.beta, MATE_SCORE - f.ply - 1)
           in_check == is_in_check(f.board, f.board.side_to_move)
           depth == IF in_check THEN saturating_add(f.depth, 1) ELSE f.depth
           leaf == ~early /\ alpha < beta_new /\ depth = 0
       IN  \E q \in (IF leaf THEN {quiescence(f.board, alpha, beta_new, 0)}
                     ELSE {QResult(0, 0, FALSE)}) :
           \E checked \in BOOLEAN :
               IF q.panics \/ (checked /\ q.overflows) THEN Panic
               ELSE /\ engine' = [ab.engine EXCEPT
                                     !.thread_data[f.thread_id].nodes_searched =
                                         @ + q.nodes]
                    /\ stack' = ReplaceTop(c,
                           IF early THEN <<Ret(0)>>
                           ELSE IF alpha >= beta_new THEN <<Ret(alpha)>>
                           ELSE IF leaf THEN <<Ret(q.score)>>
                           ELSE <<[f EXCEPT !.pc = "probe", !.alpha = alpha,
                                            !.alpha_orig = alpha, !.beta = beta_new,
                                            !.depth = depth, !.in_check = in_check]>>)
                    /\ UNCHANGED <<tt, panicked>>
    /\ UNCHANGED <<board, budget, lastMove, clock, result, uci, hist>>

\* lines 534-537: the board after a null move
null_board(b) ==
    [b EXCEPT !.side_to_move = flip(b.side_to_move),
              !.ep_square = None,
              !.hash = Xor(b.hash, side_key)]

\* lines 501-553: the table probe and its cutoffs, the static evaluation
\* (which panics in every build where evaluate does: the value 0 stands in
\* and is not read), reverse futility pruning, the null move search
PvsProbe(c) ==
    /\ At(c, "pvs", {"probing"})
    /\ LET f == Top(c)
           b == f.board
       IN  IF tt_index_panics(tt) THEN Panic
           ELSE \E eval_panics \in {evaluate_panics(b)} :
                \E static_eval \in {IF eval_panics THEN 0 ELSE evaluate(b)} :
             LET tt_entry == probe(tt, HashWord(b.hash))
                 usable == /\ tt_entry # None
                           /\ tt_entry[1].depth >= f.depth
                           /\ ~f.pv_node
                           /\ f.ply > 0
                 e == tt_entry[1]
                 rfp_margin == 90 * f.depth
                 quiet_node == ~f.pv_node /\ ~f.in_check
                 has_pieces == \E k \in {Knight, Bishop, Rook, Queen} :
                                   b.pieces[b.side_to_move][k] # {}
                 r == 3 + (f.depth \div 4)
                        + clamp(div_trunc(static_eval - f.beta, 200), 0, 2)
                 f1 == [f EXCEPT !.static_eval = static_eval,
                                 !.tt_move = IF tt_entry # None THEN e.best_move ELSE None,
                                 !.r = r]
                 cut == /\ usable
                        /\ \/ e.flag = TT_EXACT
                           \/ e.flag = TT_ALPHA /\ e.score <= f.alpha
                           \/ e.flag = TT_BETA /\ e.score >= f.beta
             IN  \E checked \in BOOLEAN :
                 IF ~cut /\ (eval_panics \/ (checked /\ evaluate_overflows(b))) THEN Panic
                 ELSE
                 /\ stack' = ReplaceTop(c,
                        IF usable /\ e.flag = TT_EXACT THEN <<Ret(e.score)>>
                        ELSE IF usable /\ e.flag = TT_ALPHA /\ e.score <= f.alpha
                        THEN <<Ret(f.alpha)>>
                        ELSE IF usable /\ e.flag = TT_BETA /\ e.score >= f.beta
                        THEN <<Ret(f.beta)>>
                        ELSE IF quiet_node /\ f.depth <= 7
                                /\ static_eval - rfp_margin >= f.beta
                        THEN <<Ret(static_eval - rfp_margin)>>
                        ELSE IF quiet_node /\ f.depth >= 3 /\ b.halfmove_clock < 90
                                /\ has_pieces /\ static_eval >= f.beta
                        THEN <<[f1 EXCEPT !.pc = "null"],
                               PvsFrame(null_board(b), saturating_sub(f.depth, r),
                                        -f.beta, -f.beta + 1, f.ply + 1, FALSE,
                                        f.thread_id)>>
                        ELSE <<[f1 EXCEPT !.pc = "razor"]>>)
                 /\ UNCHANGED <<tt, engine, panicked>>
    /\ UNCHANGED <<board, budget, lastMove, clock, result, uci, hist>>

\* lines 574-592: the moves generated and ordered, the loop variables set
PvsGenerated(f, td, moves) ==
    IF moves = <<>>
    THEN [panic |-> FALSE, td |-> td,
          frames |-> <<Ret(IF f.in_check THEN -MATE_SCORE + f.ply ELSE 0)>>]
    ELSE IF f.ply >= MAX_PLY
    THEN [panic |-> TRUE, td |-> td, frames |-> <<f>>]
    ELSE [panic |-> FALSE,
          td |-> [td EXCEPT !.pv = Put(td.pv, f.ply, <<>>)],
          frames |-> <<[f EXCEPT
              !.pc = "loop",
              !.moves = order_moves_internal(f.board, moves, f.tt_move, f.ply, td),
              !.i = 1, !.best_score = -INFINITY, !.best_move = None,
              !.move_count = 0, !.quiets_tried = <<>>]>>]

\* line 575 and PvsGenerated on the moves it generates; `checked` says
\* whether the build traps integer overflow
PvsGenerate(f, td, checked) ==
    IF checked /\ generate_legal_moves_overflows(f.board)
    THEN [panic |-> TRUE, td |-> td, frames |-> <<f>>]
    ELSE PvsGenerated(f, td, generate_legal_moves(f.board))

\* lines 555-592: razoring, internal iterative deepening, move generation
PvsRazor(c) ==
    /\ At(c, "pvs", {"razor"})
    /\ LET f == Top(c)
           td == engine.thread_data[f.thread_id]
           razor_margin == 350 + 200 * f.depth
           razor == /\ f.depth <= 3
                    /\ ~f.in_check
                    /\ ~f.pv_node
                    /\ f.static_eval + razor_margin < f.alpha
       IN  \E q \in (IF razor THEN {quiescence(f.board, f.alpha, f.beta, 0)}
                     ELSE {QResult(0, 0, FALSE)}) :
               LET td1 == [td EXCEPT !.nodes_searched = @ + q.nodes]
                   razored == razor /\ q.score < f.alpha
                   iid == ~razored /\ f.tt_move = None /\ f.depth >= 6 /\ f.pv_node
               IN  \E checked \in BOOLEAN :
                   \E g \in {IF q.panics \/ (checked /\ q.overflows)
                             THEN [frames |-> <<f>>, td |-> td, panic |-> TRUE]
                             ELSE IF razored
                             THEN [frames |-> <<Ret(Max(q.score, f.alpha - razor_margin))>>,
                                   td |-> td1, panic |-> FALSE]
                             ELSE IF iid
                             THEN [frames |->
                                      <<[f EXCEPT !.pc = "iid"],
                                        PvsFrame(f.board, saturating_sub(f.depth, 2),
                                                 f.alpha, f.beta, f.ply, TRUE,
                                                 f.thread_id)>>,
                                   td |-> td1, panic |-> FALSE]
                             ELSE PvsGenerate(f, td1, checked)} :
                       /\ stack' = ReplaceTop(c, g.frames)
                       /\ engine' = [engine EXCEPT !.thread_data[f.thread_id] = g.td]
                       /\ panicked' = g.panic
    /\ UNCHANGED <<board, budget, lastMove, tt, clock, result, uci, hist>>

\* lines 730-736: the store that ends the move loop
PvsFinish(f) ==
    LET flag == IF f.best_score <= f.alpha_orig THEN TT_ALPHA ELSE TT_EXACT
    IN  store(tt, HashWord(f.board.hash), f.depth, f.best_score, flag, f.best_move)

\* line 721: the store of a cutoff
PvsCutoff(f) ==
    store(tt, HashWord(f.board.hash), f.depth, f.beta, TT_BETA, Some(f.moves[f.i]))

\* lines 721-722 and 736-737: the store under the write lock, and the
\* return
PvsStore(c) ==
    /\ At(c, "pvs", {"storing", "cutting"})
    /\ LET f == Top(c)
       IN  IF tt_index_panics(tt) THEN Panic
           ELSE /\ tt' = IF f.pc = "storing" THEN PvsFinish(f) ELSE PvsCutoff(f)
                /\ stack' = ReplaceTop(c, <<Ret(IF f.pc = "storing" THEN f.best_score
                                                ELSE f.beta)>>)
                /\ UNCHANGED <<engine, panicked>>
    /\ UNCHANGED <<board, budget, lastMove, clock, result, uci, hist>>

\* lines 639-667: the late move reduction of a move
lmr_reduction(f, mv, gives_check, td) ==
    IF /\ f.move_count >= 3
       /\ f.depth >= 3
       /\ ~f.in_check
       /\ ~gives_check
       /\ ~is_capture(mv)
       /\ ~is_promotion(mv)
    THEN LET base == LMR_TABLE(Min(f.depth, 63), Min(f.move_count, 63))
             r1 == IF f.pv_node THEN saturating_sub(base, 1) ELSE base
             is_killer == \E k \in 1..Len(killers_at(td, f.ply)) :
                              SameFromTo(killers_at(td, f.ply)[k], mv)
             r2 == IF is_killer THEN saturating_sub(r1, 1) ELSE r1
             history == history_at(td, mv.from, mv.to)
             r3 == IF history > 5000 THEN saturating_sub(r2, 1)
                   ELSE IF history < -5000 THEN saturating_add(r2, 1)
                   ELSE r2
         IN  Min(r3, saturating_sub(f.depth, 1))
    ELSE 0

\* lines 594-683: the head of the move loop up to the first call of pvs for
\* the move; lines 730-734 where the loop ends: the time check that breaks
\* out of it has stored the stop flag
PvsLoop(c) ==
    /\ At(c, "pvs", {"loop"})
    /\ LET f == Top(c)
           b == f.board
           td == engine.thread_data[f.thread_id]
           exhausted == f.i > Len(f.moves)
           ab == IF exhausted THEN [abort |-> FALSE, engine |-> engine]
                 ELSE check_time_abort(engine, clock)
           mv == f.moves[f.i]
           quiet == ~is_capture(mv) /\ ~is_promotion(mv)
           futility_margin == 150 + 130 * f.depth
           seventh == IF b.side_to_move = White THEN 6 ELSE 1
       IN  IF PvsLoopEnds(f)
           THEN /\ stack' = ReplaceTop(c, <<[f EXCEPT !.pc = "ended"]>>)
                /\ engine' = ab.engine
                /\ UNCHANGED <<tt, panicked>>
           ELSE \E new_board \in {make_move(b, mv)} :
                \E gives_check \in {is_in_check(new_board, new_board.side_to_move)} :
                LET futile == ~f.in_check /\ ~gives_check /\ quiet
                              /\ f.move_count > 0 /\ f.depth <= 6
                    extension == IF /\ ~gives_check
                                    /\ mv.from \div 8 = seventh
                                    /\ ~is_capture(mv)
                                    /\ mv.from \in b.pieces[b.side_to_move][Pawn]
                                 THEN 1 ELSE 0
                    reduction == lmr_reduction(f, mv, gives_check, td)
                    full_depth == saturating_add(saturating_sub(f.depth, 1), extension)
                IN
                /\ stack' = ReplaceTop(c,
                       IF futile /\ f.static_eval + futility_margin <= f.alpha
                       THEN <<[f EXCEPT !.move_count = @ + 1, !.i = @ + 1]>>
                       ELSE IF f.move_count = 0
                       THEN <<[f EXCEPT !.pc = "first", !.extension = extension,
                                        !.reduction = 0],
                              PvsFrame(new_board, full_depth, -f.beta, -f.alpha,
                                       f.ply + 1, f.pv_node, f.thread_id)>>
                       ELSE <<[f EXCEPT !.pc = "nullwin", !.extension = extension,
                                        !.reduction = reduction],
                              PvsFrame(new_board,
                                       saturating_add(
                                           saturating_sub(f.depth, reduction + 1),
                                           extension),
                                       -f.alpha - 1, -f.alpha, f.ply + 1, FALSE,
                                       f.thread_id)>>)
                /\ engine' = ab.engine
                /\ UNCHANGED <<tt, panicked>>
    /\ UNCHANGED <<board, budget, lastMove, clock, result, uci, hist>>

\* lines 713-718: the history penalty of the quiet moves tried before the
\* cutoff move
RECURSIVE history_penalties(_, _, _, _, _)
history_penalties(quiets, i, mv, depth, td) ==
    IF i > Len(quiets) THEN td
    ELSE history_penalties(quiets, i + 1, mv, depth,
             IF quiets[i].from # mv.from \/ quiets[i].to # mv.to
             THEN update_history_raw_internal(quiets[i], -(depth * depth), td)
             ELSE td)

\* lines 685-727: the score of a move taken into the loop variables, the
\* cutoff with its killer and history updates; the store of line 721 waits
\* for the lock
PvsScore(f, score, td) ==
    LET mv == f.moves[f.i]
        better == score > f.best_score
        below == IF f.ply + 1 < MAX_PLY THEN pv_at(td, f.ply + 1) ELSE <<>>
        td1 == IF better THEN [td EXCEPT !.pv = Put(td.pv, f.ply, <<mv>> \o below)]
               ELSE td
        alpha == Max(f.alpha, score)
        quiet == ~is_capture(mv) /\ ~is_promotion(mv)
    IN  IF score >= f.beta
        THEN [frames |-> <<[f EXCEPT !.pc = "cut",
                                     !.move_count = @ + 1,
                                     !.best_score = IF better THEN score ELSE @,
                                     !.best_move = IF better THEN Some(mv) ELSE @,
                                     !.alpha = alpha]>>,
              td |-> IF ~is_capture(mv)
                     THEN history_penalties(f.quiets_tried, 1, mv, f.depth,
                              update_history_internal(mv, f.depth,
                                  update_killers_internal(mv, f.ply, td1)))
                     ELSE td1]
        ELSE [frames |-> <<[f EXCEPT
                  !.pc = "loop",
                  !.move_count = @ + 1,
                  !.i = @ + 1,
                  !.best_score = IF better THEN score ELSE @,
                  !.best_move = IF better THEN Some(mv) ELSE @,
                  !.alpha = alpha,
                  !.quiets_tried = IF quiet THEN Append(@, mv) ELSE @]>>,
              td |-> td1]

\* where pvs continues when a call it made returns: lines 540-553 (null
\* move and its verification), 567-572 (internal iterative deepening),
\* 634-683 (the searches of a move)
PvsResumed(c) ==
    /\ Returned(c, "pvs", {"null", "verify", "reprobing", "first", "nullwin",
                           "reduced", "full"})
    /\ LET f == Under(c)
           b == f.board
           val == Top(c).val
           td == engine.thread_data[f.thread_id]
           resumed == pvs_resumed(f, val)
           iid_move == LET e == probe(tt, HashWord(b.hash))
                       IN  IF e # None THEN e[1].best_move ELSE None
       IN  \E calls \in {resumed} :
           IF calls # <<>>
           THEN /\ stack' = ReplaceCaller(c, calls)
                /\ UNCHANGED <<tt, engine, panicked>>
           ELSE IF f.pc = "reprobing"
           THEN IF tt_index_panics(tt) THEN Panic ELSE
                \E checked \in BOOLEAN :
                \E g \in {PvsGenerate([f EXCEPT !.tt_move = iid_move], td, checked)} :
                /\ stack' = ReplaceCaller(c, g.frames)
                /\ engine' = [engine EXCEPT !.thread_data[f.thread_id] = g.td]
                /\ panicked' = g.panic
                /\ tt' = tt
           ELSE \E s \in {PvsScore(f, -val, td)} :
                /\ stack' = ReplaceCaller(c, s.frames)
                /\ engine' = [engine EXCEPT !.thread_data[f.thread_id] = s.td]
                /\ UNCHANGED <<tt, panicked>>
    /\ UNCHANGED <<board, budget, lastMove, clock, result, uci, hist>>

(***************************************************************************)
(* Root positions of the searches, as FEN strings                          *)
(***************************************************************************)
\* White has the two pawn moves e2e3 and e2e4, and Black has no move after
\* either
\* "6bk/5p1p/5P1P/8/8/p1p5/P1P1P3/KB6 w - - 0 40"
BlockedFen ==
    <<"6", "b", "k", "/", "5", "p", "1", "p", "/", "5", "P", "1", "P", "/", "8", "/",
      "8", "/", "p", "1", "p", "5", "/", "P", "1", "P", "1", "P", "3", "/", "K", "B",
      "6", " ", "w", " ", "-", " ", "-", " ", "0", " ", "4", "0">>

\* as BlockedFen with two more black pawns, so that Black is ahead after
\* e2e4 and tries the null move there
\* "6bk/5p1p/5P1P/8/p1p5/p1p5/P1P1P3/KB6 w - - 0 40"
AheadFen ==
    <<"6", "b", "k", "/", "5", "p", "1", "p", "/", "5", "P", "1", "P", "/", "8", "/",
      "p", "1", "p", "5", "/", "p", "1", "p", "5", "/", "P", "1", "P", "1", "P", "3",
      "/", "K", "B", "6", " ", "w", " ", "-", " ", "-", " ", "0", " ", "4", "0">>

\* two kings, two plies before the fifty-move rule ends every line
\* "7k/8/8/8/8/8/8/K7 w - - 98 90"
LateKingsFen ==
    <<"7", "k", "/", "8", "/", "8", "/", "8", "/", "8", "/", "8", "/", "8", "/", "K",
      "7", " ", "w", " ", "-", " ", "-", " ", "9", "8", " ", "9", "0">>

\* Black is checkmated
\* "7k/6Q1/6K1/8/8/8/8/8 b - - 0 60"
MatedFen ==
    <<"7", "k", "/", "6", "Q", "1", "/", "6", "K", "1", "/", "8", "/", "8", "/", "8",
      "/", "8", "/", "8", " ", "b", " ", "-", " ", "-", " ", "0", " ", "6", "0">>

\* Black is stalemated
\* "7k/5Q2/6K1/8/8/8/8/8 b - - 0 60"
StalematedFen ==
    <<"7", "k", "/", "5", "Q", "2", "/", "6", "K", "1", "/", "8", "/", "8", "/", "8",
      "/", "8", "/", "8", " ", "b", " ", "-", " ", "-", " ", "0", " ", "6", "0">>

\* White has the single move a1a2
\* "8/8/8/8/8/8/2k5/K7 w - - 0 60"
OneMoveFen ==
    <<"8", "/", "8", "/", "8", "/", "8", "/", "8", "/", "8", "/", "2", "k", "5", "/",
      "K", "7", " ", "w", " ", "-", " ", "-", " ", "0", " ", "6", "0">>

\* White has the capture a1a2 and the quiet move a1b2, and Black after the
\* capture the single move h8g8; the fifty-move rule ends every line but
\* those of the capture
\* "7k/7p/7P/8/8/8/b7/K7 w - - 98 90"
CaptureFen ==
    <<"7", "k", "/", "7", "p", "/", "7", "P", "/", "8", "/", "8", "/", "8", "/", "b",
      "7", "/", "K", "7", " ", "w", " ", "-", " ", "-", " ", "9", "8", " ", "9", "0">>

\* White has the two king moves b1a1 and b1c1, Black the one reply h8g8,
\* and the fifty-move rule ends every line after it
\* "7k/5p1p/5P1P/8/8/p1p5/P1P5/1K6 w - - 98 90"
ShuffleFen ==
    <<"7", "k", "/", "5", "p", "1", "p", "/", "5", "P", "1", "P", "/", "8", "/", "8",
      "/", "p", "1", "p", "5", "/", "P", "1", "P", "5", "/", "1", "K", "6", " ", "w",
      " ", "-", " ", "-", " ", "9", "8", " ", "9", "0">>

\* White is a queen down and in check, with the two moves a1a2 and a1b2
\* "7k/8/8/8/8/8/8/K6q w - - 98 90"
QueenDownFen ==
    <<"7", "k", "/", "8", "/", "8", "/", "8", "/", "8", "/", "8", "/", "8", "/", "K",
      "6", "q", " ", "w", " ", "-", " ", "-", " ", "9", "8", " ", "9", "0">>

\* the searches followed: the root, the threads of the engine, and the
\* max_depth and time_ms arguments.  The depths take in no iteration at
\* all, the first iterations, and those where aspiration windows (5), the
\* parallel root (6) and internal iterative deepening (child depth 6) begin;
\* the time limits are none, one that has passed at the first tick of the
\* clock, one that passes during the search, and two of 2^53 ms and more,
\* where the f64 of mul_f64 no longer holds every ms.
SearchCases ==
    {[fen |-> BlockedFen, threads |-> 1, depths |-> {0, 1, 2, 7},
      times |-> {None, Some(BnFromInt(0)), Some(BnFromInt(1))}],
     [fen |-> BlockedFen, threads |-> 2, depths |-> {6}, times |-> {None, Some(BnFromInt(1))}],
     [fen |-> AheadFen, threads |-> 1, depths |-> {4}, times |-> {None}],
     [fen |-> LateKingsFen, threads |-> 1, depths |-> {1, 2, 3},
      times |-> {None, Some(BnFromInt(0)), Some(BnFromInt(1))}],
     [fen |-> MatedFen, threads |-> 1, depths |-> {1, 7}, times |-> {None, Some(BnFromInt(1))}],
     [fen |-> StalematedFen, threads |-> 1, depths |-> {1, 7},
      times |-> {None, Some(BnFromInt(1)), Some(U64_MAX)}],
     [fen |-> OneMoveFen, threads |-> 1, depths |-> {1, 7}, times |-> {None, Some(BnFromInt(0))}],
     [fen |-> StartFen, threads |-> 1, depths |-> {1}, times |-> {None}],
     [fen |-> StartFen, threads |-> 4, depths |-> {5}, times |-> {None}],
     [fen |-> CaptureFen, threads |-> 1, depths |-> {2},
      times |-> {Some(BnFromInt(0)), Some(BnFromInt(1))}],
     [fen |-> ShuffleFen, threads |-> 2, depths |-> {6}, times |-> {None}],
     [fen |-> OverlapFen, threads |-> 1, depths |-> {1}, times |-> {None}],
     [fen |-> QueenDownFen, threads |-> 1, depths |-> {1, 2},
      times |-> {Some(BnAdd(BnShl(<<1>>, 53), <<1>>))}]}

(***************************************************************************)
(* The machine of a search: SearchEngine::new, then calls of search        *)
(***************************************************************************)
\* UCIEngine::new apart from its board; the engine of a test is the same
\* with its own number of threads
EngineIdle(threads) ==
    /\ tt = tt_new(512)
    /\ engine = SearchEngine_new(threads)
    /\ stack = [c \in {0} |-> <<>>]
    /\ clock = [elapsed |-> <<>>, time_ms |-> None, readings |-> {}]
    /\ result = None
    /\ uci = [debug |-> FALSE, pc |-> "read", unsent |-> <<>>,
              stdin |-> <<>>, stdout |-> <<>>, stop_arrived |-> FALSE,
              go_args |-> <<>>]
    /\ panicked = FALSE
    /\ hist = NoHistory

\* one call of search is followed on each engine
InitSearch ==
    \E s \in SearchCases :
        /\ board = from_fen(s.fen).val
        /\ budget = 1
        /\ lastMove = None
        /\ EngineIdle(s.threads)

\* a caller hands the board to search
SearchCall ==
    /\ ~panicked
    /\ ~Searching
    /\ budget > 0
    /\ budget' = budget - 1
    /\ \E s \in SearchCases :
          /\ from_fen(s.fen).val = board
          /\ s.threads = engine.threads
          /\ \E max_depth \in s.depths, time_ms \in s.times :
                 SearchStart(board, max_depth, time_ms)
    /\ UNCHANGED <<board, lastMove, tt, uci, panicked>>

\* SearchEngine::set_multi_pv
set_multi_pv(e, count) == [e EXCEPT !.multi_pv = clamp(count, 1, 5)]

\* the counts a caller asks for: below the range, inside it, above it
MultiPvCounts == {0, 3, 9}

\* PyChessEngine::set_multi_pv (lib.rs lines 72-74): the caller sets the
\* number of lines before it calls search
SetMultiPv ==
    /\ ~panicked
    /\ ~Searching
    /\ budget > 0
    /\ \E count \in MultiPvCounts : engine' = set_multi_pv(engine, count)
    /\ UNCHANGED <<board, budget, lastMove, tt, stack, clock, result, uci, panicked,
                   hist>>

\* time passes while a search with a time limit runs: the clock reads a
\* later time; without a limit the search never reads the clock
Tick ==
    /\ ~panicked
    /\ Searching
    /\ clock.time_ms # None
    /\ \E ms \in clock.readings :
          /\ BnCmp(ms, clock.elapsed) > 0
          /\ clock' = [clock EXCEPT !.elapsed = ms]
    /\ UNCHANGED <<board, budget, lastMove, tt, engine, stack, result, uci, panicked, hist>>

\* a step of the thread c of a running search
SearchStep(c) ==
    \/ WorkerBegin(c)
    \/ PassReturn(c)
    \/ RootThreadMove(c)
    \/ RootThreadResumed(c)
    \/ PvsEnter(c)
    \/ TtRead(c)
    \/ PvsProbe(c)
    \/ PvsRazor(c)
    \/ TtWrite(c)
    \/ PvsStore(c)
    \/ PvsLoop(c)
    \/ PvsResumed(c)

SearchRun ==
    \/ SearchIterate
    \/ SearchResumed
    \/ AspirationResumed
    \/ RootBegin
    \/ RootJoin
    \/ \E c \in DOMAIN stack : SearchStep(c)

NextSearch == SearchCall \/ SetMultiPv \/ Tick \/ SearchRun

SpecSearch == InitSearch /\ [][NextSearch]_vars

\* the thread c has a step to take: it is at a place where one of the
\* steps of SearchRun continues, or a call it made has returned to it; a
\* thread about to lock has one when the lock is free, and the root at its
\* join waits for the closures it started
Runnable(c) ==
    /\ stack[c] # <<>>
    /\ \/ /\ Top(c).fn = "ret"
          /\ Len(stack[c]) >= 2
          /\ (Under(c).fn = "pvs" /\ Under(c).pc = "iid") => TtFreeToRead(c)
       \/ <<Top(c).fn, Top(c).pc>> \in
              {<<"search", "loop">>, <<"root", "begin">>,
               <<"root_thread", "loop">>, <<"pvs", "enter">>, <<"pvs", "probing">>,
               <<"pvs", "razor">>, <<"pvs", "loop">>, <<"pvs", "storing">>,
               <<"pvs", "cutting">>}
       \/ /\ <<Top(c).fn, Top(c).pc>> = <<"worker", "begin">>
          /\ engine.stop \/ MutexFree(c, Top(c).thread_id)
       \/ /\ <<Top(c).fn, Top(c).pc>> = <<"pvs", "probe">>
          /\ TtFreeToRead(c)
       \/ /\ PvsWrites(c)
          /\ TtFreeToWrite(c)
       \/ /\ <<Top(c).fn, Top(c).pc>> = <<"root", "join">>
          /\ \A w \in DOMAIN stack \ {0} :
                 Len(stack[w]) = 1 /\ stack[w][1].fn = "ret"

\* ENABLED <<SearchRun>>_vars: every step of SearchRun changes the stack
SearchCanRun == ~panicked /\ \E c \in DOMAIN stack : Runnable(c)

\* the threads of a search are scheduled (by the operating system, and by
\* the thread pool for the closures of the parallel root): weak fairness of
\* SearchRun, with its enabling condition written as SearchCanRun
SpecSearchFair ==
    SpecSearch /\ (<>[](~SearchCanRun) \/ []<><<SearchRun>>_vars)

(***************************************************************************)
(* uci.rs: the words of the protocol, as strings                           *)
(***************************************************************************)
KW_uci ==
    <<"u", "c", "i">>

KW_isready ==
    <<"i", "s", "r", "e", "a", "d", "y">>

KW_ucinewgame ==
    <<"u", "c", "i", "n", "e", "w", "g", "a", "m", "e">>

KW_position ==
    <<"p", "o", "s", "i", "t", "i", "o", "n">>

KW_go ==
    <<"g", "o">>

KW_stop ==
    <<"s", "t", "o", "p">>

KW_quit ==
    <<"q", "u", "i", "t">>

KW_debug ==
    <<"d", "e", "b", "u", "g">>

KW_on ==
    <<"o", "n">>

KW_setoption ==
    <<"s", "e", "t", "o", "p", "t", "i", "o", "n">>

KW_d ==
    <<"d">>

KW_startpos ==
    <<"s", "t", "a", "r", "t", "p", "o", "s">>

KW_fen ==
    <<"f", "e", "n">>

KW_moves ==
    <<"m", "o", "v", "e", "s">>

KW_depth ==
    <<"d", "e", "p", "t", "h">>

KW_movetime ==
    <<"m", "o", "v", "e", "t", "i", "m", "e">>

KW_wtime ==
    <<"w", "t", "i", "m", "e">>

KW_btime ==
    <<"b", "t", "i", "m", "e">>

KW_winc ==
    <<"w", "i", "n", "c">>

KW_binc ==
    <<"b", "i", "n", "c">>

KW_movestogo ==
    <<"m", "o", "v", "e", "s", "t", "o", "g", "o">>

KW_infinite ==
    <<"i", "n", "f", "i", "n", "i", "t", "e">>

KW_name ==
    <<"n", "a", "m", "e">>

KW_value ==
    <<"v", "a", "l", "u", "e">>

KW_clearhash ==
    <<"c", "l", "e", "a", "r", "h", "a", "s", "h">>

KW_hash ==
    <<"h", "a", "s", "h">>

KW_threads ==
    <<"t", "h", "r", "e", "a", "d", "s">>

\* "id name RustChessEngine Ultimate v4.0"
UciIdName ==
    <<"i", "d", " ", "n", "a", "m", "e", " ", "R", "u", "s", "t", "C", "h", "e", "s",
      "s", "E", "n", "g", "i", "n", "e", " ", "U", "l", "t", "i", "m", "a", "t", "e",
      " ", "v", "4", ".", "0">>

\* "id author StockfishKiller Team (Rust Edition)"
UciIdAuthor ==
    <<"i", "d", " ", "a", "u", "t", "h", "o", "r", " ", "S", "t", "o", "c", "k", "f",
      "i", "s", "h", "K", "i", "l", "l", "e", "r", " ", "T", "e", "a", "m", " ", "(",
      "R", "u", "s", "t", " ", "E", "d", "i", "t", "i", "o", "n", ")">>

\* "option name Hash type spin default 256 min 16 max 8192"
UciOptionHash ==
    <<"o", "p", "t", "i", "o", "n", " ", "n", "a", "m", "e", " ", "H", "a", "s", "h",
      " ", "t", "y", "p", "e", " ", "s", "p", "i", "n", " ", "d", "e", "f", "a", "u",
      "l", "t", " ", "2", "5", "6", " ", "m", "i", "n", " ", "1", "6", " ", "m", "a",
      "x", " ", "8", "1", "9", "2">>

\* "option name Threads type spin default 4 min 1 max 8"
UciOptionThreads ==
    <<"o", "p", "t", "i", "o", "n", " ", "n", "a", "m", "e", " ", "T", "h", "r", "e",
      "a", "d", "s", " ", "t", "y", "p", "e", " ", "s", "p", "i", "n", " ", "d", "e",
      "f", "a", "u", "l", "t", " ", "4", " ", "m", "i", "n", " ", "1", " ", "m", "a",
      "x", " ", "8">>

\* "option name ClearHash type button"
UciOptionClearHash ==
    <<"o", "p", "t", "i", "o", "n", " ", "n", "a", "m", "e", " ", "C", "l", "e", "a",
      "r", "H", "a", "s", "h", " ", "t", "y", "p", "e", " ", "b", "u", "t", "t", "o",
      "n">>

\* "uciok"
UciOk ==
    <<"u", "c", "i", "o", "k">>

\* "readyok"
ReadyOk ==
    <<"r", "e", "a", "d", "y", "o", "k">>

\* "bestmove "
BestMovePrefix ==
    <<"b", "e", "s", "t", "m", "o", "v", "e", " ">>

\* "bestmove 0000"
BestMoveNone ==
    <<"b", "e", "s", "t", "m", "o", "v", "e", " ", "0", "0", "0", "0">>


(***************************************************************************)
(* uci.rs: strings                                                         *)
(***************************************************************************)
UpperLetters ==
    <<"A", "B", "C", "D", "E", "F", "G", "H", "I", "J", "K", "L", "M",
      "N", "O", "P", "Q", "R", "S", "T", "U", "V", "W", "X", "Y", "Z">>

LowerLetters ==
    <<"a", "b", "c", "d", "e", "f", "g", "h", "i", "j", "k", "l", "m",
      "n", "o", "p", "q", "r", "s", "t", "u", "v", "w", "x", "y", "z">>

\* char::to_lowercase of an ASCII character
to_ascii_lowercase(ch) ==
    IF IndexOf(UpperLetters, ch) >= 0
    THEN LowerLetters[IndexOf(UpperLetters, ch) + 1]
    ELSE ch

\* lines 299, 303 and 318-327: `s.to_lowercase() == word` for a word of
\* ASCII letters in lower case, s read from byte i and the word from j.
\* The lower case of an ASCII character is an ASCII character; of the
\* characters above ASCII, U+212A KELVIN SIGN alone has a lower case made
\* of ASCII characters, "k".
RECURSIVE LowercaseIs(_, _, _, _)
LowercaseIs(s, i, word, j) ==
    IF i > Len(s) THEN j > Len(word)
    ELSE IF j > Len(word) THEN FALSE
    ELSE IF char_at(s, i) < 128
    THEN to_ascii_lowercase(s[i]) = word[j] /\ LowercaseIs(s, i + 1, word, j + 1)
    ELSE /\ char_at(s, i) = 8490
         /\ word[j] = "k"
         /\ LowercaseIs(s, next_char(s, i), word, j + 1)

lowercase_is(s, word) == LowercaseIs(s, 1, word, 1)

\* [&str]::join(" ")
RECURSIVE join(_)
join(parts) ==
    IF Len(parts) = 0 THEN <<>>
    ELSE IF Len(parts) = 1 THEN parts[1]
    ELSE parts[1] \o <<" ">> \o join(Tail(parts))

\* the value of the digit string s read from byte i on top of acc, None if
\* the string is empty, holds a byte that is no digit, or its value passes
\* max: the checked multiplication and addition of from_str_radix
RECURSIVE ParseDigits(_, _, _, _)
ParseDigits(s, i, acc, max) ==
    IF i > Len(s) THEN (IF Len(s) = 0 THEN None ELSE Some(acc))
    ELSE IF to_digit(char_code(s[i])) = None THEN None
    ELSE LET next == BnAdd(BnMulSmall(acc, 10), BnFromInt(to_digit(char_code(s[i]))[1]))
         IN  IF BnCmp(next, max) > 0 THEN None
             ELSE ParseDigits(s, i + 1, next, max)

\* str::parse::<u64> and str::parse::<usize>: an optional '+', then digits
parse_u64(s) ==
    ParseDigits(IF Len(s) > 0 /\ s[1] = "+" THEN Tail(s) ELSE s, 1, <<>>, U64_MAX)

\* str::parse of an unsigned type with the largest value max, max below
\* 2^31
parse_unsigned(s, max) ==
    LET v == ParseDigits(IF Len(s) > 0 /\ s[1] = "+" THEN Tail(s) ELSE s, 1, <<>>,
                         BnFromInt(max))
    IN  IF v = None THEN None ELSE Some(BnToInt(v[1]))

\* str::parse::<i32>: an optional sign, then digits
parse_i32(s) ==
    LET signed == Len(s) > 0 /\ s[1] \in {"+", "-"}
        negative == signed /\ s[1] = "-"
        v == ParseDigits(IF signed THEN Tail(s) ELSE s, 1, <<>>,
                         IF negative THEN BnAdd(BnFromInt(I32_MAX), <<1>>)
                         ELSE BnFromInt(I32_MAX))
    IN  IF v = None THEN None
        ELSE IF ~negative THEN Some(BnToInt(v[1]))
        ELSE IF v[1] = <<>> THEN Some(0)
        ELSE Some(-BnToInt(BnSub(v[1], <<1>>)) - 1)

\* Option::unwrap_or
unwrap_or(opt, default) == IF opt = None THEN default ELSE opt[1]

\* uci.rs lines 384-397: s.len() counts bytes; a string of two bytes that
\* is one character has no second character, and line 390 returns None
uci_parse_square(s) ==
    IF Len(s) # 2 THEN None
    ELSE IF next_char(s, 1) > 2 THEN None
    ELSE LET file == IndexOf(FileChars, s[1])
             rank == IndexOf(RankChars, s[2])
         IN  IF file < 0 \/ rank < 0 THEN None
             ELSE Some(rank * 8 + file)

\* the promotion piece a fifth character names, None for any other
PromoOfChar(ch) ==
    CASE ch = "n" -> Some(Knight)
      [] ch = "b" -> Some(Bishop)
      [] ch = "r" -> Some(Rook)
      [] ch = "q" -> Some(Queen)
      [] OTHER -> None

\* lines 356-378: the loop over the legal moves from index i on
RECURSIVE FindUciMove(_, _, _, _, _)
FindUciMove(moves, i, from, to, text) ==
    IF i > Len(moves) THEN None
    ELSE LET mv == moves[i]
         IN  IF mv.from = from /\ mv.to = to
             THEN IF Len(text) = 5
                  THEN IF promotion_piece(mv) = None THEN None
                       ELSE IF PromoOfChar(text[5]) = promotion_piece(mv) THEN Some(mv)
                       ELSE FindUciMove(moves, i + 1, from, to, text)
                  ELSE Some(mv)
             ELSE FindUciMove(moves, i + 1, from, to, text)

\* lines 350-351: the slices &uci[0..2] and &uci[2..4] are cut by bytes,
\* and a slice that ends inside a character panics in every build; the
\* second is cut when the first has parsed as a square
parse_uci_move_panics(text) ==
    /\ Len(text) >= 4
    /\ \/ ~is_char_boundary(text, 2)
       \/ /\ uci_parse_square(SubSeq(text, 1, 2)) # None
          /\ ~is_char_boundary(text, 4)

\* UCIEngine::parse_uci_move, where it does not panic
parse_uci_move(b, text) ==
    IF Len(text) < 4 \/ parse_uci_move_panics(text) THEN None
    ELSE LET from == uci_parse_square(SubSeq(text, 1, 2))
             to == uci_parse_square(SubSeq(text, 3, 4))
         IN  IF from = None \/ to = None THEN None
             ELSE FindUciMove(generate_legal_moves(b), 1, from[1], to[1], text)

(***************************************************************************)
(* uci.rs: the handlers of the commands                                     *)
(***************************************************************************)
\* BoardState::default
BoardState_default == from_fen(StartFen).val

\* lines 100-103: the index of "moves" among the arguments, one past the
\* last if it is not there
RECURSIVE fen_parts_end(_, _)
fen_parts_end(args, i) ==
    IF i <= Len(args) /\ args[i] # KW_moves THEN fen_parts_end(args, i + 1) ELSE i

\* lines 122-123: the board when parse_uci_move returned mv
make_parsed(b, mv) == IF mv # None THEN make_move(b, mv[1]) ELSE b

\* lines 121-127: each move that parses as a legal move is made, the others
\* are passed over
RECURSIVE apply_moves(_, _, _)
apply_moves(b, args, i) ==
    IF i > Len(args) THEN b
    ELSE apply_moves(make_parsed(b, parse_uci_move(b, args[i])), args, i + 1)

\* parse_uci_move generates the legal moves once both squares parse; a
\* build with overflow checks panics where one of the moves it makes on the
\* way leaves u16
parse_uci_move_overflows(b, text) ==
    /\ Len(text) >= 4
    /\ ~parse_uci_move_panics(text)
    /\ uci_parse_square(SubSeq(text, 1, 2)) # None
    /\ uci_parse_square(SubSeq(text, 3, 4)) # None
    /\ generate_legal_moves_overflows(b)

\* lines 121-127: one of the calls of parse_uci_move panics in such a
\* build, before any of them panics in every build
RECURSIVE apply_moves_overflows(_, _, _)
apply_moves_overflows(b, args, i) ==
    IF i > Len(args) THEN FALSE
    ELSE IF parse_uci_move_panics(args[i]) THEN FALSE
    ELSE IF parse_uci_move_overflows(b, args[i]) THEN TRUE
    ELSE apply_moves_overflows(make_parsed(b, parse_uci_move(b, args[i])), args, i + 1)

\* lines 121-127: one of the calls of parse_uci_move panics in every build
RECURSIVE apply_moves_panics(_, _, _)
apply_moves_panics(b, args, i) ==
    IF i > Len(args) THEN FALSE
    ELSE IF parse_uci_move_panics(args[i]) THEN TRUE
    ELSE apply_moves_panics(make_parsed(b, parse_uci_move(b, args[i])), args, i + 1)

\* lines 119-128
position_moves(b, args, move_idx) ==
    IF move_idx <= Len(args) /\ args[move_idx] = KW_moves
    THEN apply_moves(b, args, move_idx + 1)
    ELSE b

\* lines 96-117: the board the moves are made on and the index of "moves";
\* ok is false where position returns early
position_start(b, args, move_idx, parsed) ==
    IF Len(args) = 0 THEN [ok |-> FALSE, val |-> b, move_idx |-> 2]
    ELSE IF args[1] = KW_startpos
    THEN [ok |-> TRUE, val |-> BoardState_default, move_idx |-> 2]
    ELSE IF args[1] = KW_fen
    THEN [ok |-> parsed.ok, val |-> IF parsed.ok THEN parsed.val ELSE b,
          move_idx |-> move_idx]
    ELSE [ok |-> FALSE, val |-> b, move_idx |-> 2]

\* lines 105-106: the FEN of position fen, from_fen applied to it
position_fen(args, move_idx) == from_fen(join(SubSeq(args, 2, move_idx - 1)))

\* lines 119-128 after lines 96-117
position_from(b, args, start) ==
    IF start.ok THEN position_moves(start.val, args, start.move_idx) ELSE b

\* whether position panics in a build with overflow checks: from_fen on the
\* FEN given (lines 105-106), or a move of lines 121-127
position_overflows(b, args, start, parsed) ==
    \/ Len(args) > 0 /\ args[1] = KW_fen /\ parsed.overflows
    \/ /\ start.ok
       /\ start.move_idx <= Len(args)
       /\ args[start.move_idx] = KW_moves
       /\ apply_moves_overflows(start.val, args, start.move_idx + 1)

\* whether position panics in every build: from_fen on the FEN given
\* (lines 105-106), or a move of lines 121-127
position_panics(b, args, start, parsed) ==
    \/ Len(args) > 0 /\ args[1] = KW_fen /\ parsed.panics
    \/ /\ start.ok
       /\ start.move_idx <= Len(args)
       /\ args[start.move_idx] = KW_moves
       /\ apply_moves_panics(start.val, args, start.move_idx + 1)

\* whether position panics in a build whose tables hold the characters of
\* LaterNumericRanges: from_fen on the FEN given (lines 105-106)
position_later(args, parsed) == Len(args) > 0 /\ args[1] = KW_fen /\ parsed.later

\* UCIEngine::position: the board after the command
position(b, args) ==
    position_from(b, args,
                  position_start(b, args, fen_parts_end(args, 2),
                                 position_fen(args, fen_parts_end(args, 2))))

\* lines 136-142
GoDefaults ==
    [depth |-> 64, time_ms |-> None, wtime |-> None, btime |-> None,
     winc |-> 0, binc |-> 0, movestogo |-> 40]

\* the locals of go while its arguments are read, and the index of the
\* next argument
GoState(i, g) == [i |-> i, g |-> g]

\* lines 146-209: one turn of the loop over the arguments
go_arg(args, i, g) ==
    LET a == args[i]
        has == i + 1 <= Len(args)
        v == IF has THEN args[i + 1] ELSE <<>>
    IN  IF a = KW_infinite
        THEN GoState(i + 1, [g EXCEPT !.depth = 100, !.time_ms = None])
        ELSE IF ~has THEN GoState(i + 1, g)
        ELSE CASE a = KW_depth ->
                    GoState(i + 2, [g EXCEPT !.depth = unwrap_or(parse_unsigned(v, 255), 64)])
               [] a = KW_movetime ->
                    GoState(i + 2, [g EXCEPT !.time_ms =
                                       Some(unwrap_or(parse_u64(v), BnFromInt(1000)))])
               [] a = KW_wtime ->
                    GoState(i + 2, [g EXCEPT !.wtime =
                                       Some(unwrap_or(parse_u64(v), BnFromInt(60000)))])
               [] a = KW_btime ->
                    GoState(i + 2, [g EXCEPT !.btime =
                                       Some(unwrap_or(parse_u64(v), BnFromInt(60000)))])
               [] a = KW_winc ->
                    GoState(i + 2, [g EXCEPT !.winc = unwrap_or(parse_i32(v), 0)])
               [] a = KW_binc ->
                    GoState(i + 2, [g EXCEPT !.binc = unwrap_or(parse_i32(v), 0)])
               [] a = KW_movestogo ->
                    GoState(i + 2, [g EXCEPT !.movestogo = unwrap_or(parse_i32(v), 40)])
               [] OTHER -> GoState(i + 1, g)

\* lines 144-210: the arguments of go read from index i on
RECURSIVE go_args(_, _, _)
go_args(args, i, g) ==
    IF i > Len(args) THEN g
    ELSE LET st == go_arg(args, i, g)
         IN  go_args(args, st.i, st.g)

\* the f64 of the literals 0.7, 0.75, 1.3 and 1.4
F64_0_7 == F64Div(1, BnFromInt(7), BnFromInt(10))

F64_0_75 == F64Div(1, BnFromInt(3), BnFromInt(4))

F64_1_3 == F64Div(1, BnFromInt(13), BnFromInt(10))

F64_1_4 == F64Div(1, BnFromInt(14), BnFromInt(10))

\* `(allocated as f64 * factor) as u64`
scale_u64(allocated, factor) == F64ToU64(F64Mul(F64FromNat(allocated), factor))

\* line 228: movestogo + 5 in i32, as a build that wraps leaves it
movestogo_plus_5(movestogo) ==
    IF movestogo > I32_MAX - 5 THEN ((movestogo - I32_MAX) + 3) - I32_MAX
    ELSE movestogo + 5

\* lines 227-232
time_fraction(b, movestogo) ==
    IF movestogo > 0
    THEN F64Div(IF movestogo_plus_5(movestogo) < 0 THEN -1 ELSE 1, <<1>>,
                BnFromAbs(movestogo_plus_5(movestogo)))
    ELSE F64Div(1, <<1>>,
                BnFromInt(Max(IF b.fullmove_number > 50
                              THEN U16 + 50 - b.fullmove_number
                              ELSE 50 - b.fullmove_number, 30)))

\* line 234
allocated_share(b, g, my_time, my_inc) ==
    F64ToU64(F64Add(F64Mul(F64FromNat(my_time), time_fraction(b, g.movestogo)),
                    F64Mul(F64FromInt(my_inc), F64_0_7)))

\* lines 237-241: the game phase adjustments
allocated_by_phase(b, allocated) ==
    IF b.fullmove_number < 10 THEN scale_u64(allocated, F64_0_75)
    ELSE IF b.fullmove_number > 40 THEN scale_u64(allocated, F64_1_3)
    ELSE allocated

\* lines 244-246
allocated_in_check(b, allocated) ==
    IF is_in_check(b, b.side_to_move) THEN scale_u64(allocated, F64_1_4) ELSE allocated

\* line 250: my_time - safety_margin in u64, as a build that wraps leaves it
time_less_margin(my_time, safety_margin) ==
    IF BnCmp(my_time, safety_margin) < 0
    THEN BnSub(BnAdd(BnShl(<<1>>, 64), my_time), safety_margin)
    ELSE BnSub(my_time, safety_margin)

\* lines 249-255: the safety margin and the absolute limits
allocated_within(my_time, safety_margin, allocated, checked) ==
    IF checked /\ BnCmp(my_time, safety_margin) < 0
    THEN [panic |-> TRUE, time_ms |-> None]
    ELSE [panic |-> FALSE,
          time_ms |-> Some(BnMin(BnMax(BnMin(allocated,
                                             time_less_margin(my_time, safety_margin)),
                                       BnFromInt(200)),
                                 BnFromInt(120000)))]

\* lines 227-255 with my_time and my_inc chosen
allocate_from(b, g, checked, my_time, my_inc) ==
    IF checked /\ (g.movestogo > I32_MAX - 5
                    \/ (g.movestogo <= 0 /\ b.fullmove_number > 50))
    THEN [panic |-> TRUE, time_ms |-> None]
    ELSE allocated_within(my_time, BnMax(BnDivSmall(my_time, 10), BnFromInt(3000)),
                          allocated_in_check(b, allocated_by_phase(b,
                              allocated_share(b, g, my_time, my_inc))),
                          checked)

\* lines 213-261: the time allotted to the move, in the f64 and u64
\* arithmetic of the code; `checked` says whether the build traps integer
\* overflow (a debug build) or wraps (a release build)
allocate_time(b, g, checked) ==
    IF g.time_ms # None \/ g.wtime = None \/ g.btime = None
    THEN [panic |-> FALSE, time_ms |-> g.time_ms]
    ELSE allocate_from(b, g, checked,
                       IF b.side_to_move = White THEN g.wtime[1] ELSE g.btime[1],
                       IF b.side_to_move = White THEN g.winc ELSE g.binc)

\* SearchEngine::new_game
new_game(e) ==
    [e EXCEPT !.nodes = 0,
              !.thread_data = [t \in DOMAIN @ |-> ThreadData_new]]

\* SearchEngine::set_threads
set_threads(e, threads) ==
    LET new_threads == clamp(threads, 1, MAX_THREADS)
    IN  IF new_threads = e.threads THEN e
        ELSE [e EXCEPT !.threads = new_threads,
                       !.thread_data = [t \in 0..(new_threads - 1) |-> ThreadData_new]]

\* lines 291-297: the index of "value" among the arguments
RECURSIVE name_parts_end(_, _)
name_parts_end(args, i) ==
    IF i <= Len(args) /\ args[i] # KW_value THEN name_parts_end(args, i + 1) ELSE i

\* what setoption leaves: the table, the engine, whether arithmetic left
\* usize on the way, and the entries of the table it allocates (a Vec of
\* no entries when it allocates none)
OptionSet(t, e, overflows, alloc) ==
    [tt |-> t, engine |-> e, overflows |-> overflows, alloc |-> alloc]

\* UCIEngine::setoption: the table and the engine after the command
setoption(t, e, args) ==
    IF Len(args) < 4 \/ args[1] # KW_name THEN OptionSet(t, e, FALSE, <<>>)
    ELSE LET value_idx == name_parts_end(args, 2)
             name == join(SubSeq(args, 2, value_idx - 1))
             value == args[value_idx + 1]
             parsed == parse_u64(value)
         IN  IF value_idx > Len(args)
             THEN IF lowercase_is(name, KW_clearhash)
                  THEN OptionSet(tt_clear(t), e, FALSE, t.size)
                  ELSE OptionSet(t, e, FALSE, <<>>)
             ELSE IF value_idx + 1 > Len(args) THEN OptionSet(t, e, FALSE, <<>>)
             ELSE IF lowercase_is(name, KW_hash) /\ parsed # None
             THEN OptionSet(resize(t, parsed[1]), e, table_size_overflows(parsed[1]),
                            TableEntries(parsed[1]))
             ELSE IF lowercase_is(name, KW_threads) /\ parsed # None
             THEN OptionSet(t, set_threads(e, BnSat(parsed[1])), FALSE, <<>>)
             ELSE OptionSet(t, e, FALSE, <<>>)

\* UCIEngine::uci
uci_lines ==
    <<UciIdName, UciIdAuthor, UciOptionHash, UciOptionThreads, UciOptionClearHash,
      UciOk>>

\* UCIEngine::display
display_lines(b) == <<<<>>, to_fen(b), <<>>>>

\* lines 275-279 of go
bestmove_line(r) ==
    IF r.best_move # None THEN BestMovePrefix \o to_uci(r.best_move[1])
    ELSE BestMoveNone

(***************************************************************************)
(* The machine of the UCI adapter: UCIEngine::new, then run.  The sender   *)
(* writes the lines of a script to stdin one by one, at any time; run      *)
(* reads a line when the handler of the line before has returned.  Of the  *)
(* output, the lines that begin with "info" are left out.                  *)
(***************************************************************************)
\* a FEN whose side-to-move field is neither w nor b
\* "7k/8/8/8/8/8/8/K7 x - - 0 1"
BadSideFen ==
    <<"7", "k", "/", "8", "/", "8", "/", "8", "/", "8", "/", "8", "/", "8", "/", "K",
      "7", " ", "x", " ", "-", " ", "-", " ", "0", " ", "1">>

\* a FEN of three fields
\* "7k/8/8/8 w -"
ShortFen == <<"7", "k", "/", "8", "/", "8", "/", "8", " ", "w", " ", "-">>

\* a rank of nine pawns: the ninth is shifted by 64
\* "ppppppppp/8/8/8/8/8/8/4K3 w - - 0 1"
NinePawnsFen ==
    <<"p", "p", "p", "p", "p", "p", "p", "p", "p", "/", "8", "/", "8", "/", "8", "/",
      "8", "/", "8", "/", "8", "/", "4", "K", "3", " ", "w", " ", "-", " ", "-", " ",
      "0", " ", "1">>

\* an en passant field of one character of two bytes
\* "7k/8/8/8/8/8/8/K7 w - é 0 1"
TwoByteEpFen ==
    <<"7", "k", "/", "8", "/", "8", "/", "8", "/", "8", "/", "8", "/", "8", "/", "K",
      "7", " ", "w", " ", "-", " ", "xC3", "xA9", " ", "0", " ", "1">>

\* a placement that ends in U+00BD VULGAR FRACTION ONE HALF
\* "7k/8/8/8/8/8/8/K6½ w - - 0 1"
FractionFen ==
    <<"7", "k", "/", "8", "/", "8", "/", "8", "/", "8", "/", "8", "/", "8", "/", "K",
      "6", "xC2", "xBD", " ", "w", " ", "-", " ", "-", " ", "0", " ", "1">>

\* a placement that ends in U+1E4F0 NAG MUNDARI DIGIT ZERO, a character of
\* Unicode 15.0
\* "7k/8/8/8/8/8/8/K6\u{1E4F0} w - - 0 1"
LaterDigitFen ==
    <<"7", "k", "/", "8", "/", "8", "/", "8", "/", "8", "/", "8", "/", "8", "/", "K",
      "6", "xF0", "x9E", "x93", "xB0", " ", "w", " ", "-", " ", "-", " ", "0", " ",
      "1">>

\* a rank of eight empty squares and a rook below a pawn on a7: the rook
\* is set on a7 too, and a7a8 is the text of the four promotions of the
\* pawn and of a move of the rook
\* "7k/P7/8R/8/8/8/8/K7 w - - 0 1"
PawnRookFen ==
    <<"7", "k", "/", "P", "7", "/", "8", "R", "/", "8", "/", "8", "/", "8", "/", "8",
      "/", "K", "7", " ", "w", " ", "-", " ", "-", " ", "0", " ", "1">>

\* the name of the button as `option name ClearHash type button` gives it
ClearHashName == <<"C", "l", "e", "a", "r", "H", "a", "s", "h">>

\* the lines a sender writes, one script after UCIEngine::new.  The values
\* of Hash are 0, 65536 (a table of more than 2^31 entries), 2^43 + 1 (a
\* table of more than isize::MAX bytes) and 2^44 (a size in bytes that
\* leaves usize)
UciScripts ==
    {<<join(<<KW_position, KW_startpos, KW_moves,
              <<"e", "2", "e", "5">>, <<"e", "2", "e", "4">>>>),
       KW_d>>,
     <<join(<<KW_position, KW_startpos, KW_moves, <<"e", "2", "e", "4">>>>),
       join(<<KW_position, KW_fen, BadSideFen>>)>>,
     <<join(<<KW_debug, KW_on>>),
       join(<<KW_position, KW_startpos, KW_moves, <<"e", "2", "e", "4">>>>),
       join(<<KW_position, KW_fen, ShortFen, KW_moves, <<"h", "8", "h", "7">>>>)>>,
     <<join(<<KW_position, KW_fen, OneMoveFen>>),
       join(<<KW_go, KW_infinite>>),
       KW_stop>>,
     <<join(<<KW_position, KW_fen, MatedFen>>),
       join(<<KW_go, KW_depth, <<"3">>>>),
       KW_stop,
       KW_ucinewgame>>,
     <<join(<<KW_setoption, KW_name, <<"H", "a", "s", "h">>, KW_value, <<"0">>>>),
       join(<<KW_position, KW_fen, LateKingsFen>>),
       join(<<KW_go, KW_depth, <<"2">>>>)>>,
     <<join(<<KW_position, KW_fen, LateKingsFen>>),
       join(<<KW_go, KW_depth, <<"2">>, KW_movetime, <<"1">>>>),
       KW_stop>>,
     <<join(<<KW_setoption, KW_name, <<"H", "a", "s", "h">>, KW_value,
              <<"6", "5", "5", "3", "6">>>>),
       join(<<KW_position, KW_fen, LateKingsFen>>),
       join(<<KW_go, KW_depth, <<"2">>>>)>>,
     <<join(<<KW_setoption, KW_name, <<"H", "a", "s", "h">>, KW_value,
              <<"8", "7", "9", "6", "0", "9", "3", "0", "2", "2", "2", "0", "9">>>>),
       KW_d>>,
     <<join(<<KW_setoption, KW_name, <<"H", "a", "s", "h">>, KW_value,
              <<"1", "7", "5", "9", "2", "1", "8", "6", "0", "4", "4", "4", "1", "6">>>>),
       join(<<KW_go, KW_depth, <<"1">>>>)>>,
     <<join(<<KW_setoption, KW_name, <<"T", "h", "r", "e", "a", "d", "s">>, KW_value,
              <<"2">>>>),
       join(<<KW_position, KW_fen, BlockedFen>>),
       join(<<KW_go, KW_depth, <<"6">>>>)>>,
     <<KW_uci, KW_isready, <<"h", "e", "l", "l", "o">>, KW_quit, KW_d>>,
     <<join(<<KW_setoption, KW_name, <<"T", "h", "r", "e", "a", "d", "s">>, KW_value,
              <<"1">>>>),
       join(<<KW_go, KW_depth, <<"1">>>>),
       KW_ucinewgame,
       join(<<KW_go, KW_depth, <<"1">>>>)>>,
     <<join(<<KW_go, KW_wtime, <<"6", "0", "0", "0", "0">>,
              KW_btime, <<"6", "0", "0", "0", "0">>, KW_winc, <<"1", "0", "0", "0">>>>),
       join(<<KW_go, KW_wtime, <<"3", "1", "0", "0">>, KW_btime, <<"3", "1", "0", "0">>>>),
       join(<<KW_go, KW_wtime, <<"1", "0", "0", "0">>, KW_btime, <<"1", "0", "0", "0">>>>)>>,
     <<join(<<KW_position, KW_fen, LateKingsFen>>),
       join(<<KW_go, KW_depth, <<"2">>>>),
       join(<<KW_setoption, KW_name, ClearHashName>>)>>,
     <<join(<<KW_position, KW_fen, LateKingsFen>>),
       join(<<KW_go, KW_depth, <<"2">>>>),
       join(<<KW_go, KW_depth, <<"1">>>>)>>,
     <<KW_position \o <<"\t">> \o KW_startpos \o <<"\t">> \o KW_moves \o <<"\t">>
           \o <<"e", "2", "e", "4">>,
       KW_d>>,
     <<join(<<KW_position, KW_startpos, KW_moves,
              <<"e", "2", "e", "4">>, <<"e", "7", "e", "5">>>>),
       join(<<KW_go, KW_depth, <<"1">>>>)>>,
     <<join(<<KW_position, KW_fen, LateKingsFen>>),
       join(<<KW_go, KW_depth, <<"1">>, KW_movetime,
              <<"1", "0", "0", "0", "0", "0", "0", "0", "0", "0">>>>),
       join(<<KW_go, KW_depth, <<"1">>,
              KW_wtime, <<"5", "0", "0", "0", "0", "0", "0", "0", "0", "0">>,
              KW_btime, <<"1", "0", "0", "0">>>>)>>,
     <<join(<<KW_position, KW_fen, StalematedFen>>),
       join(<<KW_go, KW_wtime, <<"4", "9", "0", "0", "0">>,
              KW_btime, <<"4", "9", "0", "0", "0">>, KW_movestogo, <<"4", "4">>>>)>>,
     <<join(<<KW_position, KW_fen, StalematedFen>>),
       join(<<KW_go, KW_depth, <<"2">>, KW_movetime,
              <<"1", "8", "4", "4", "6", "7", "4", "4", "0", "7", "3", "7", "0", "9", "5",
                "5", "1", "6", "1", "5">>>>)>>,
     <<join(<<KW_position, KW_fen, NinePawnsFen>>),
       KW_d>>,
     <<KW_position \o <<"x0B">> \o KW_startpos \o <<"xC2", "xA0">> \o KW_moves
           \o <<"xE2", "x80", "x83">> \o <<"e", "2", "e", "4">>,
       KW_d>>,
     <<join(<<KW_position, KW_fen, TwoByteEpFen>>),
       KW_d>>,
     <<join(<<KW_position, KW_fen, FractionFen>>),
       KW_d>>,
     <<join(<<KW_position, KW_fen, LaterDigitFen>>),
       KW_d>>,
     <<join(<<KW_position, KW_fen, PawnRookFen, KW_moves, <<"a", "7", "a", "8">>>>),
       KW_d>>,
     <<join(<<KW_position, KW_startpos, KW_moves, <<"e", "2", "e", "4">>>>),
       join(<<KW_d, <<"xFF">>>>),
       join(<<KW_d, <<"xC0", "xA0">>>>),
       KW_isready>>,
     <<join(<<KW_position, KW_startpos, KW_moves, <<"xC3", "xA9", "2", "e", "4">>,
              <<"e", "2", "e", "4">>, <<"e", "xC3", "xA9", "5">>>>),
       KW_d>>}

InitUci ==
    \E script \in UciScripts :
        /\ board = BoardState_default
        /\ budget = 0
        /\ lastMove = None
        /\ tt = tt_new(512)
        /\ engine = SearchEngine_new(4)
        /\ stack = [c \in {0} |-> <<>>]
        /\ clock = [elapsed |-> <<>>, time_ms |-> None, readings |-> {}]
        /\ result = None
        /\ uci = [debug |-> FALSE, pc |-> "read", unsent |-> script,
                  stdin |-> <<>>, stdout |-> <<>>, stop_arrived |-> FALSE,
              go_args |-> <<>>]
        /\ panicked = FALSE
        /\ hist = NoHistory

\* the sender writes its next line; stop_arrived records that a stop was
\* written while go was running
UciSend ==
    /\ uci.unsent # <<>>
    /\ uci' = [uci EXCEPT
                  !.unsent = Tail(@),
                  !.stdin = Append(@, Head(uci.unsent)),
                  !.stop_arrived =
                      @ \/ (uci.pc = "go"
                              /\ split_whitespace(Head(uci.unsent)) = <<KW_stop>>)]
    /\ UNCHANGED <<board, budget, lastMove, tt, engine, stack, clock, result, panicked,
                   hist>>

\* the board position leaves when none of the moves after an illegal one
\* is made
RECURSIVE RefMovesUntilIllegal(_, _, _)
RefMovesUntilIllegal(b, args, i) ==
    IF i > Len(args) \/ parse_uci_move(b, args[i]) = None THEN b
    ELSE RefMovesUntilIllegal(make_move(b, parse_uci_move(b, args[i])[1]), args, i + 1)

\* the fields of a string between separators
RECURSIVE SplitOn(_, _, _, _, _)
SplitOn(s, sep, i, cur, parts) ==
    IF i > Len(s) THEN Append(parts, cur)
    ELSE IF s[i] = sep THEN SplitOn(s, sep, i + 1, <<>>, Append(parts, cur))
    ELSE SplitOn(s, sep, i + 1, Append(cur, s[i]), parts)

\* the files a rank of a FEN placement covers, -1 if a character is
\* neither a piece letter nor a digit 1..8
RECURSIVE RefRankWidth(_, _)
RefRankWidth(rank, i) ==
    IF i > Len(rank) THEN 0
    ELSE LET rest == RefRankWidth(rank, i + 1)
             w == IF PieceOfChar(rank[i]) > 0 THEN 1
                  ELSE IF IndexOf(RankChars, rank[i]) >= 0
                  THEN IndexOf(RankChars, rank[i]) + 1
                  ELSE -1
         IN  IF rest < 0 \/ w < 0 THEN -1 ELSE w + rest

\* the string is a FEN: six fields; eight ranks of eight files; the side w
\* or b; castling - or letters of KQkq, none twice; en passant - or a square
\* of rank 3 or 6; two numbers, the second at least 1
RefValidFen(fen) ==
    LET parts == split_whitespace(fen)
        ranks == SplitOn(parts[1], "/", 1, <<>>, <<>>)
        ep == uci_parse_square(parts[4])
    IN  /\ Len(parts) = 6
        /\ Len(ranks) = 8
        /\ \A r \in 1..8 : RefRankWidth(ranks[r], 1) = 8
        /\ parts[2] \in {<<"w">>, <<"b">>}
        /\ \/ parts[3] = <<"-">>
           \/ /\ Len(parts[3]) \in 1..4
              /\ \A i \in 1..Len(parts[3]) : parts[3][i] \in {"K", "Q", "k", "q"}
              /\ \A i, j \in 1..Len(parts[3]) : i # j => parts[3][i] # parts[3][j]
        /\ \/ parts[4] = <<"-">>
           \/ ep # None /\ RankOf(ep[1]) \in {2, 5}
        /\ parse_unsigned(parts[5], 65535) # None
        /\ parse_unsigned(parts[6], 65535) # None
        /\ parse_unsigned(parts[6], 65535) # Some(0)

\* the board a position command leaves when it makes the moves up to the
\* first illegal one; start is the board the moves begin on
RefPositionUntilIllegal(b, args, start) ==
    IF ~start.ok THEN b
    ELSE IF start.move_idx <= Len(args) /\ args[start.move_idx] = KW_moves
    THEN RefMovesUntilIllegal(start.val, args, start.move_idx + 1)
    ELSE start.val

\* history of a position command: the board before it, whether it gave a
\* FEN, whether from_fen took it, whether it is a FEN, and the board when
\* the moves up to the first illegal one are made
PositionHistory(b, args, start) ==
    [op |-> "position",
     before |-> Some(b),
     fen_given |-> Len(args) > 0 /\ args[1] = KW_fen,
     fen_ok |-> start.ok,
     fen_valid |-> RefValidFen(join(SubSeq(args, 2, start.move_idx - 1))),
     expected |-> Some(RefPositionUntilIllegal(b, args, start))]

\* UCIEngine::go called by handle_command; it returns in UciGoDone
HandleGo(args, rest) ==
    \E g \in {go_args(args, 1, GoDefaults)} :
    \E checked \in BOOLEAN :
    \E t \in {allocate_time(board, g, checked)} :
        IF t.panic
        THEN /\ panicked' = TRUE
             /\ uci' = rest
             /\ UNCHANGED <<board, tt, engine, stack, clock, result, hist>>
        ELSE /\ SearchStart(board, g.depth, t.time_ms)
             /\ uci' = [rest EXCEPT !.pc = "go", !.stop_arrived = FALSE,
                                    !.go_args = args]
             /\ UNCHANGED <<board, tt, panicked>>

\* UCIEngine::position called by handle_command
HandlePosition(args, rest) ==
    \E parsed \in {position_fen(args, fen_parts_end(args, 2))} :
    \E start \in {position_start(board, args, fen_parts_end(args, 2), parsed)} :
    \E checked \in BOOLEAN :
    \E later \in BOOLEAN :
        IF \/ position_panics(board, args, start, parsed)
           \/ checked /\ position_overflows(board, args, start, parsed)
           \/ later /\ position_later(args, parsed)
        THEN /\ panicked' = TRUE
             /\ uci' = rest
             /\ UNCHANGED <<board, tt, engine, stack, clock, result, hist>>
        ELSE /\ board' = position_from(board, args, start)
             /\ hist' = [hist EXCEPT !.command = PositionHistory(board, args, start),
                                     !.handled = Append(@, [op |-> "position"])]
             /\ uci' = rest
             /\ UNCHANGED <<tt, engine, stack, clock, result, panicked>>

\* UCIEngine::ucinewgame called by handle_command: SearchEngine::new_game
\* clears the table, which allocates it anew, then the board is set
HandleUcinewgame(rest) ==
    \E alloc_fails \in vec_alloc_fails(tt.size) :
        IF alloc_fails
        THEN /\ panicked' = TRUE
             /\ uci' = rest
             /\ UNCHANGED <<board, tt, engine, stack, clock, result, hist>>
        ELSE /\ board' = BoardState_default
             /\ tt' = tt_clear(tt)
             /\ engine' = new_game(engine)
             /\ uci' = rest
             /\ hist' = [hist EXCEPT !.command.op = "other",
                                     !.handled = Append(@, [op |-> "ucinewgame"])]
             /\ UNCHANGED <<stack, clock, result, panicked>>

\* UCIEngine::setoption called by handle_command
HandleSetoption(args, rest) ==
    \E opt \in {setoption(tt, engine, args)} :
    \E checked \in BOOLEAN :
    \E alloc_fails \in vec_alloc_fails(opt.alloc) :
        IF (checked /\ opt.overflows) \/ alloc_fails
        THEN /\ panicked' = TRUE
             /\ uci' = rest
             /\ UNCHANGED <<board, tt, engine, stack, clock, result, hist>>
        ELSE /\ tt' = opt.tt
             /\ engine' = opt.engine
             /\ uci' = rest
             /\ hist' = [hist EXCEPT !.command.op = "other",
                                     !.handled = Append(@, [op |-> "setoption",
                                                            args |-> args,
                                                            before |-> tt])]
             /\ UNCHANGED <<board, stack, clock, result, panicked>>

\* UCIEngine::run, where a line that is not UTF-8 is an Err of
\* reader.lines() and is passed over
UciSkip(rest) ==
    /\ uci' = rest
    /\ UNCHANGED <<board, tt, engine, stack, clock, result, panicked, hist>>

\* UCIEngine::run and handle_command: the next line is read, split, and
\* its handler called
UciRead ==
    /\ ~panicked
    /\ uci.pc = "read"
    /\ uci.stdin # <<>>
    /\ \E parts \in {IF ValidUtf8From(Head(uci.stdin), 1)
                      THEN split_whitespace(Head(uci.stdin)) ELSE <<>>} :
       \E rest \in {[uci EXCEPT !.stdin = Tail(@)]} :
       LET cmd == IF parts = <<>> THEN <<>> ELSE parts[1]
           args == IF parts = <<>> THEN <<>> ELSE Tail(parts)
       IN  CASE ~ValidUtf8From(Head(uci.stdin), 1) -> UciSkip(rest)
             [] cmd = KW_go -> HandleGo(args, rest)
             [] cmd = KW_position -> HandlePosition(args, rest)
             [] cmd = KW_setoption -> HandleSetoption(args, rest)
             [] cmd = KW_ucinewgame -> HandleUcinewgame(rest)
             [] OTHER ->
                  /\ engine' = IF cmd = KW_stop THEN [engine EXCEPT !.stop = TRUE]
                                ELSE engine
                  /\ uci' = CASE cmd = KW_uci -> [rest EXCEPT !.stdout = @ \o uci_lines]
                               [] cmd = KW_isready ->
                                    [rest EXCEPT !.stdout = Append(@, ReadyOk)]
                               [] cmd = KW_d ->
                                    [rest EXCEPT !.stdout = @ \o display_lines(board)]
                               [] cmd = KW_debug ->
                                    [rest EXCEPT !.debug = IF Len(args) > 0
                                                           THEN args[1] = KW_on ELSE @]
                               [] cmd = KW_quit -> [rest EXCEPT !.pc = "quit"]
                               [] OTHER -> rest
                  /\ hist' = [hist EXCEPT
                                  !.command.op = "other",
                                  !.handled = Append(@, [op |-> "other"])]
                  /\ UNCHANGED <<board, tt, stack, clock, result, panicked>>
    /\ UNCHANGED <<budget, lastMove>>

\* the search of go runs
UciGoRuns ==
    /\ uci.pc = "go"
    /\ SearchRun

\* the clock of the search of go
UciGoTick ==
    /\ uci.pc = "go"
    /\ Tick

\* lines 275-279: search has returned, go prints its best move
UciGoDone ==
    /\ ~panicked
    /\ uci.pc = "go"
    /\ ~Searching
    /\ result # None
    /\ uci' = [uci EXCEPT !.pc = "read", !.stdout = Append(@, bestmove_line(result[1]))]
    /\ hist' = [hist EXCEPT
                    !.command.op = "go",
                    !.handled = Append(@, [op |-> "go", board |-> board,
                                           args |-> uci.go_args,
                                           threads |-> engine.threads,
                                           best_move |-> result[1].best_move])]
    /\ UNCHANGED <<board, budget, lastMove, tt, engine, stack, clock, result, panicked>>

NextUci == UciSend \/ UciRead \/ UciGoRuns \/ UciGoTick \/ UciGoDone

SpecUci == InitUci /\ [][NextUci]_vars

(***************************************************************************)
(* The machine of a transposition table: TranspositionTable::new, then     *)
(* calls of store, probe, clear and resize                                 *)
(***************************************************************************)
\* the sizes in MB a table is given: none, 43690 slots, 87381 slots
TTSizes == {0, 1, 2}

\* hashes: the one of test_transposition_table, one that shares its slot
\* in a table of 1 MB, one that shares it in a table of 2 MB, and the hash
\* of the starting position
TTHashes ==
    {BnFromInt(12345), BnFromInt(12345 + 43690), BnFromInt(12345 + 87381),
     HashWord(from_fen(StartFen).val.hash)}

\* the depth, score, flag and best_move arguments of store
TTPayloads ==
    {<<5, 100, TT_EXACT, Some(Move(12, 20, QUIET_MOVE))>>,
     <<1, -50, TT_ALPHA, None>>,
     <<4, 70, TT_BETA, Some(Move(12, 28, DOUBLE_PAWN_PUSH))>>}

\* history: the last call, its hash argument, and the table it found
NoCall == [op |-> "new", hash |-> <<>>, payload |-> <<>>, before |-> tt_new(0)]

InitTT ==
    \E size_mb \in TTSizes :
        /\ tt = tt_new(size_mb)
        /\ budget = MaxTableCalls
        /\ board = from_fen(StartFen).val
        /\ lastMove = None
        /\ engine = SearchEngine_new(1)
        /\ stack = [c \in {0} |-> <<>>]
        /\ clock = [elapsed |-> <<>>, time_ms |-> None, readings |-> {}]
        /\ result = None
        /\ uci = [debug |-> FALSE, pc |-> "read", unsent |-> <<>>,
                  stdin |-> <<>>, stdout |-> <<>>, stop_arrived |-> FALSE,
              go_args |-> <<>>]
        /\ panicked = FALSE
        /\ hist = NoCall

TTStore ==
    /\ ~panicked
    /\ budget > 0
    /\ budget' = budget - 1
    /\ \E hash \in TTHashes, p \in TTPayloads :
          /\ hist' = [op |-> "store", hash |-> hash, payload |-> p, before |-> tt]
          /\ IF tt_index_panics(tt)
             THEN panicked' = TRUE /\ tt' = tt
             ELSE panicked' = FALSE /\ tt' = store(tt, hash, p[1], p[2], p[3], p[4])
    /\ result' = None
    /\ UNCHANGED <<board, lastMove, engine, stack, clock, uci>>

TTProbe ==
    /\ ~panicked
    /\ budget > 0
    /\ budget' = budget - 1
    /\ \E hash \in TTHashes :
          /\ hist' = [op |-> "probe", hash |-> hash, payload |-> <<>>, before |-> tt]
          /\ IF tt_index_panics(tt)
             THEN panicked' = TRUE /\ result' = None
             ELSE panicked' = FALSE /\ result' = Some(probe(tt, hash))
    /\ UNCHANGED <<board, lastMove, tt, engine, stack, clock, uci>>

TTClear ==
    /\ ~panicked
    /\ budget > 0
    /\ budget' = budget - 1
    /\ \E alloc_fails \in vec_alloc_fails(tt.size) :
          /\ panicked' = alloc_fails
          /\ tt' = IF alloc_fails THEN tt ELSE tt_clear(tt)
    /\ hist' = [op |-> "clear", hash |-> <<>>, payload |-> <<>>, before |-> tt]
    /\ result' = None
    /\ UNCHANGED <<board, lastMove, engine, stack, clock, uci>>

TTResize ==
    /\ ~panicked
    /\ budget > 0
    /\ budget' = budget - 1
    /\ \E size_mb \in TTSizes :
       \E alloc_fails \in vec_alloc_fails(TableEntries(BnFromInt(size_mb))) :
          /\ panicked' = alloc_fails
          /\ tt' = IF alloc_fails THEN tt ELSE resize(tt, BnFromInt(size_mb))
    /\ hist' = [op |-> "resize", hash |-> <<>>, payload |-> <<>>, before |-> tt]
    /\ result' = None
    /\ UNCHANGED <<board, lastMove, engine, stack, clock, uci>>

NextTT == TTStore \/ TTProbe \/ TTClear \/ TTResize

SpecTT == InitTT /\ [][NextTT]_vars

(***************************************************************************)
(* The state machine: a board built by from_fen, then calls of             *)
(* BoardState::make_move_uci (PyBoardState::make_move, lib.rs line 110)    *)
(* with the text of a move.                                                *)
(***************************************************************************)
\* board.rs lines 477-496: the loop over the legal moves from index i on.
\* A text of five bytes takes a move whose promotion piece its fifth
\* character names and passes over every other move; any other text takes
\* the first move with its two squares.
RECURSIVE MakeMoveUciLoop(_, _, _, _, _)
MakeMoveUciLoop(moves, i, from, to, text) ==
    IF i > Len(moves) THEN None
    ELSE IF /\ moves[i].from = from
            /\ moves[i].to = to
            /\ \/ Len(text) # 5
               \/ /\ promotion_piece(moves[i]) # None
                  /\ PromoOfChar(text[5]) = promotion_piece(moves[i])
    THEN Some(moves[i])
    ELSE MakeMoveUciLoop(moves, i + 1, from, to, text)

\* board.rs lines 462-499.  The legal moves are generated first; the slices
\* &uci[0..2] and &uci[2..4] are cut by bytes and panic in every build where
\* they end inside a character; parse_square panics as described there.
\* ok: Ok(true) was returned and mv was made; panics: the call panicked;
\* neither: an Err was returned and the board is as it was.  `checked` says
\* whether the build traps integer overflow.
make_move_uci(b, text, checked) ==
    LET refused == [ok |-> FALSE, panics |-> FALSE, board |-> b, mv |-> None]
        dead == [ok |-> FALSE, panics |-> TRUE, board |-> b, mv |-> None]
        from == parse_square(SubSeq(text, 1, 2))
        to == parse_square(SubSeq(text, 3, 4))
    IN  IF checked /\ generate_legal_moves_overflows(b) THEN dead
        ELSE IF Len(text) < 4 THEN refused
        ELSE IF ~is_char_boundary(text, 2) THEN dead
        ELSE IF from.panics \/ (checked /\ from.overflows) THEN dead
        ELSE IF ~from.ok THEN refused
        ELSE IF ~is_char_boundary(text, 4) THEN dead
        ELSE IF to.panics \/ (checked /\ to.overflows) THEN dead
        ELSE IF ~to.ok THEN refused
        ELSE LET mv == MakeMoveUciLoop(generate_legal_moves(b), 1, from.val, to.val, text)
             IN  IF mv = None THEN refused
                 ELSE [ok |-> TRUE, panics |-> FALSE, board |-> make_move(b, mv[1]),
                       mv |-> mv]

\* texts that name no legal move or are no move at all: too short ("e2"),
\* a first slice that is one character of two bytes ("\u00e9e2e"), a first
\* slice cut inside a character ("e\u00e92e"), a second slice that is one
\* character ("e2\u00e9"), a second slice cut inside a character
\* ("e2e\u00e9"), squares off the board ("i9e4", "e2e9"), a file below 'a'
\* ("A2e4"), a rank below '1' ("e2e0"), a fifth character on a move that
\* promotes nothing ("e2e4q", "a2a3x"), a sixth character ("e2e4qq")
BadMoveTexts ==
    {<<"e", "2">>,
     <<"xC3", "xA9", "e", "2", "e">>,
     <<"e", "xC3", "xA9", "2", "e">>,
     <<"e", "2", "xC3", "xA9">>,
     <<"e", "2", "e", "xC3", "xA9">>,
     <<"i", "9", "e", "4">>,
     <<"e", "2", "e", "9">>,
     <<"A", "2", "e", "4">>,
     <<"e", "2", "e", "0">>,
     <<"e", "2", "e", "4", "q">>,
     <<"a", "2", "a", "3", "x">>,
     <<"e", "2", "e", "4", "q", "q">>}

\* the texts a caller hands to make_move_uci: every legal move as to_uci
\* writes it, its first four bytes (a promotion without its piece), and
\* the texts above
MoveTexts(b) ==
    LET moves == generate_legal_moves(b)
    IN  {to_uci(moves[i]) : i \in 1..Len(moves)}
        \cup {SubSeq(to_uci(moves[i]), 1, 4) : i \in 1..Len(moves)}
        \cup BadMoveTexts

InitFrom(starts) ==
    \E s \in starts :
        /\ from_fen(s.fen).ok
        /\ board = from_fen(s.fen).val
        /\ budget = s.budget
        /\ lastMove = None
        /\ EngineIdle(1)

Init == InitFrom(GameStarts)

InitAnyFen == InitFrom(AnyFenStarts)

\* one call of make_move_uci
MakeMove ==
    /\ ~panicked
    /\ budget > 0
    /\ \E checked \in BOOLEAN :
       \E text \in MoveTexts(board) :
       \E r \in {make_move_uci(board, text, checked)} :
          /\ panicked' = r.panics
          /\ board' = r.board
          /\ lastMove' = r.mv
    /\ budget' = budget - 1
    /\ UNCHANGED <<tt, engine, stack, clock, result, uci, hist>>

Next == MakeMove

Spec == Init /\ [][Next]_vars

SpecAnyFen == InitAnyFen /\ [][Next]_vars

(***************************************************************************)
(* Reference notions of chess, stated from the attacker's side and without *)
(* the attack tables, against which the generator is checked               *)
(***************************************************************************)
Sign(x) == IF x > 0 THEN 1 ELSE IF x < 0 THEN -1 ELSE 0

\* the squares strictly between s and t, for s and t on one line
RefBetween(s, t) ==
    LET dr == Sign(RankOf(t) - RankOf(s))
        df == Sign(FileOf(t) - FileOf(s))
        n == Max(Abs(RankOf(t) - RankOf(s)), Abs(FileOf(t) - FileOf(s)))
    IN  {(RankOf(s) + k * dr) * 8 + (FileOf(s) + k * df) : k \in 1..(n - 1)}

\* a piece of the kind and colour, standing on s, attacks t on board b
RefAttacks(b, kind, color, s, t) ==
    LET dr == RankOf(t) - RankOf(s)
        df == FileOf(t) - FileOf(s)
        clear == RefBetween(s, t) \cap b.all_pieces = {}
        diagonal == Abs(dr) = Abs(df) /\ dr # 0
        straight == (dr = 0 /\ df # 0) \/ (df = 0 /\ dr # 0)
    IN  CASE kind = Pawn -> dr = (IF color = White THEN 1 ELSE -1) /\ Abs(df) = 1
          [] kind = Knight -> {Abs(dr), Abs(df)} = {1, 2}
          [] kind = Bishop -> diagonal /\ clear
          [] kind = Rook -> straight /\ clear
          [] kind = Queen -> (diagonal \/ straight) /\ clear
          [] kind = King -> Max(Abs(dr), Abs(df)) = 1
          [] OTHER -> FALSE

\* some piece of colour by attacks t on board b
RefAttacked(b, t, by) ==
    \E kind \in 1..6 : \E s \in b.pieces[by][kind] : RefAttacks(b, kind, by, s, t)

\* the king of the colour stands on a square the other colour attacks
RefKingAttacked(b, color) ==
    \E k \in b.pieces[color][King] : RefAttacked(b, k, flip(color))

\* the number of pieces on the board
PieceCount(b) == Cardinality(b.all_pieces)

Moved == lastMove # None

(***************************************************************************)
(* Claims                                                                  *)
(***************************************************************************)

\* C1: after every make_move of a legal move, on a board built by from_fen,
\* the incrementally maintained hash equals compute_hash of the board.
\* Stated for every board from_fen builds (SpecAnyFen) it fails: castling
\* with a right whose rook is missing XORs the key of a rook that was never
\* on the board.
C1_HashIsRecomputedHash == board.hash = compute_hash(board)

\* C2: the six piece bitboards of each colour are pairwise disjoint, their
\* union is color_bb of the colour, the two colours share no square and
\* their union is all_pieces.
C2_BitboardsConsistent ==
    /\ \A c \in 0..1 :
          /\ \A j, k \in 1..6 : j # k => board.pieces[c][j] \cap board.pieces[c][k] = {}
          /\ UNION {board.pieces[c][k] : k \in 1..6} = board.color_bb[c]
    /\ board.color_bb[0] \cap board.color_bb[1] = {}
    /\ board.color_bb[0] \cup board.color_bb[1] = board.all_pieces

\* C2 witness: an en-passant capture has just been made and has taken the
\* pawn off the board
C2_Witness ==
    /\ Moved
    /\ lastMove[1].flags = EP_CAPTURE
    /\ PieceCount(board) = 3

\* C3: generate_legal_moves returns exactly the pseudo-legal moves after
\* which the mover's king is not attacked by the opponent.
C3_LegalMovesExact ==
    LET legal == Elems(generate_legal_moves(board))
        pseudo == Elems(generate_pseudo_legal(board))
    IN  /\ legal \subseteq pseudo
        /\ \A mv \in pseudo :
              mv \in legal <=> ~RefKingAttacked(make_move(board, mv), board.side_to_move)

\* C3 witness: after a move, some pseudo-legal move is rejected and some
\* is returned
C3_Witness ==
    /\ Moved
    /\ generate_legal_moves(board) # <<>>
    /\ generate_legal_moves(board) # generate_pseudo_legal(board)

\* the four castling moves: colour, right, squares between king and rook,
\* squares of the king's path, move
CastleKinds ==
    {[color |-> White, mask |-> 1, between |-> {5, 6}, path |-> {4, 5, 6},
      mv |-> Move(4, 6, KING_CASTLE), rook |-> 7, king |-> 4],
     [color |-> White, mask |-> 2, between |-> {1, 2, 3}, path |-> {4, 3, 2},
      mv |-> Move(4, 2, QUEEN_CASTLE), rook |-> 0, king |-> 4],
     [color |-> Black, mask |-> 4, between |-> {61, 62}, path |-> {60, 61, 62},
      mv |-> Move(60, 62, KING_CASTLE), rook |-> 63, king |-> 60],
     [color |-> Black, mask |-> 8, between |-> {57, 58, 59}, path |-> {60, 59, 58},
      mv |-> Move(60, 58, QUEEN_CASTLE), rook |-> 56, king |-> 60]}

\* the side to move holds the right, the squares between are empty and no
\* square of the king's path is attacked
CastleAllowed(b, ck) ==
    /\ HasBit(b.castling_rights, ck.mask)
    /\ ck.between \cap b.all_pieces = {}
    /\ \A sq \in ck.path : ~RefAttacked(b, sq, flip(ck.color))

\* C4: a castling move of the side to move is generated exactly when the
\* right is held, the squares between king and rook are empty and none of
\* the king's origin, transit and destination squares is attacked.
C4_CastlingExact ==
    LET castling == Elems(generate_castling_moves(board, board.side_to_move))
        legal == Elems(generate_legal_moves(board))
    IN  \A ck \in CastleKinds :
            ck.color = board.side_to_move =>
                /\ ck.mv \in castling <=> CastleAllowed(board, ck)
                /\ ck.mv \in legal <=> CastleAllowed(board, ck)

\* C4 witness: after a move, the side to move holds both rights with empty
\* squares between; one castling move is generated and the other is not,
\* because a square of the king's path is attacked
C4_Witness ==
    \E ck, dk \in CastleKinds :
        /\ Moved
        /\ ck.color = board.side_to_move /\ dk.color = board.side_to_move
        /\ ck.mv \in Elems(generate_legal_moves(board))
        /\ HasBit(board.castling_rights, dk.mask)
        /\ dk.between \cap board.all_pieces = {}
        /\ dk.mv \notin Elems(generate_legal_moves(board))

\* C5: whenever generate_legal_moves returns a castling move, a rook of the
\* mover stands on the rook's origin square and the mover's king on e1/e8,
\* and making the move does not change the number of pieces.
\* Stated for every board from_fen accepts (SpecAnyFen) it fails.
C5_CastlingHasRook ==
    \A ck \in CastleKinds :
        (ck.color = board.side_to_move /\ ck.mv \in Elems(generate_legal_moves(board))) =>
            /\ ck.rook \in board.pieces[ck.color][Rook]
            /\ ck.king \in board.pieces[ck.color][King]
            /\ PieceCount(make_move(board, ck.mv)) = PieceCount(board)

\* the corner squares and the right tied to each
Corners == {[sq |-> 0, mask |-> 2], [sq |-> 7, mask |-> 1],
            [sq |-> 56, mask |-> 8], [sq |-> 63, mask |-> 4]}

\* the rights the move mv, made on board b, takes away: both of the mover
\* when the king moves, that of a corner a rook leaves or a capture lands on
RightsLost(b, mv) ==
    {m \in {1, 2, 4, 8} :
        \/ /\ mv.from \in b.pieces[b.side_to_move][King]
           /\ m \in (IF b.side_to_move = White THEN {1, 2} ELSE {4, 8})
        \/ \E c \in Corners :
              /\ c.mask = m
              /\ \/ mv.from = c.sq /\ c.sq \in b.pieces[b.side_to_move][Rook]
                 \/ mv.to = c.sq /\ c.sq \in b.color_bb[flip(b.side_to_move)]}

\* a step in which make_move has acted keeps or clears each right
C6_Step ==
    lastMove' # None =>
        \A m \in {1, 2, 4, 8} :
            HasBit(board'.castling_rights, m)
                <=> (HasBit(board.castling_rights, m)
                     /\ m \notin RightsLost(board, lastMove'[1]))

\* C6: make_move never sets a castling right; a king move clears both
\* rights of its colour, a rook leaving a corner or a capture landing on a
\* corner clears the right of that corner, every other right is unchanged.
C6_CastlingRightsOnlyLost == [][C6_Step]_vars

\* C6 witness: a capture has landed on h8 and taken Black's king-side
\* right, while Black's queen-side right is still held
C6_Witness ==
    /\ Moved
    /\ lastMove[1].to = 63 /\ is_capture(lastMove[1])
    /\ ~HasBit(board.castling_rights, 4)
    /\ HasBit(board.castling_rights, 8)

\* the occurrences of the current hash in the history before the current one
PriorOccurrences(b) ==
    Cardinality({i \in 1..(Len(b.position_history) - 1) : b.position_history[i] = b.hash})

\* C7: is_repetition is true exactly when the hash of the position occurred
\* at least 2 times before the current occurrence since the last
\* irreversible move (false at the second occurrence, true at the third).
\* It fails: the history holds the current occurrence too, and the count of
\* 2 is reached at the second occurrence.
C7_RepetitionIsThreefold == is_repetition(board) <=> PriorOccurrences(board) >= 2

\* a step in which make_move has acted resets or advances clock and history
C8_Step ==
    lastMove' # None =>
        LET mv == lastMove'[1]
            pawn_moved == mv.from \in board.pieces[board.side_to_move][Pawn]
            captured == PieceCount(board') < PieceCount(board)
        IN  IF pawn_moved \/ captured
            THEN /\ board'.halfmove_clock = 0
                 /\ board'.position_history = <<board'.hash>>
            ELSE /\ board'.halfmove_clock = board.halfmove_clock + 1
                 /\ board'.position_history = Append(board.position_history, board'.hash)

\* C8: after a pawn move or a capture halfmove_clock is 0 and the history
\* holds only the new hash; after any other move the clock is one more and
\* the new hash is appended to the unchanged history.
C8_ClockAndHistory == [][C8_Step]_vars

\* C8 witness: a piece other than a pawn has captured, after reversible moves
C8_Witness ==
    /\ Moved
    /\ lastMove[1].flags = CAPTURE
    /\ lastMove[1].to \notin board.pieces[flip(board.side_to_move)][Pawn]
    /\ board.halfmove_clock = 0
    /\ Len(board.position_history) = 1

\* C9 as claimed: if ep_square is set, the square is empty and a pawn of the
\* side to move attacks it.  It fails: every double push sets ep_square.
C9_EpSquareCapturable ==
    board.ep_square # None =>
        /\ board.ep_square[1] \notin board.all_pieces
        /\ \E s \in board.pieces[board.side_to_move][Pawn] :
              RefAttacks(board, Pawn, board.side_to_move, s, board.ep_square[1])

\* the square a pawn of the side that just moved stands on after a double
\* push over ep, and the square it came from
EpPawnSquare(b) == IF b.side_to_move = Black THEN b.ep_square[1] + 8 ELSE b.ep_square[1] - 8

EpOriginSquare(b) == IF b.side_to_move = Black THEN b.ep_square[1] - 8 ELSE b.ep_square[1] + 8

\* the last move took a pawn two ranks forward
LastWasDoublePush ==
    /\ Moved
    /\ lastMove[1].to \in board.pieces[flip(board.side_to_move)][Pawn]
    /\ Abs(lastMove[1].to - lastMove[1].from) = 16

\* C9 amended: if ep_square is set, the square is empty, the square behind
\* it is empty and a pawn of the side that just moved stands on the square
\* in front of it; after a move ep_square is set exactly when the move was
\* a double pawn push, whether or not a pawn can capture there.
C9_EpSquareBehindPushedPawn ==
    /\ board.ep_square # None =>
          /\ board.ep_square[1] \notin board.all_pieces
          /\ EpOriginSquare(board) \notin board.all_pieces
          /\ EpPawnSquare(board) \in board.pieces[flip(board.side_to_move)][Pawn]
    /\ Moved => (board.ep_square # None <=> LastWasDoublePush)
    /\ LastWasDoublePush =>
          board.ep_square = Some((lastMove[1].from + lastMove[1].to) \div 2)

\* C9 witness: a double push has set ep_square where no pawn can capture
C9_Witness ==
    /\ LastWasDoublePush
    /\ board.ep_square # None
    /\ ~\E s \in board.pieces[board.side_to_move][Pawn] :
           RefAttacks(board, Pawn, board.side_to_move, s, board.ep_square[1])

\* equality of two boards on every field but position_history
SameButHistory(a, b) ==
    /\ a.pieces = b.pieces
    /\ a.color_bb = b.color_bb
    /\ a.all_pieces = b.all_pieces
    /\ a.side_to_move = b.side_to_move
    /\ a.castling_rights = b.castling_rights
    /\ a.ep_square = b.ep_square
    /\ a.halfmove_clock = b.halfmove_clock
    /\ a.fullmove_number = b.fullmove_number
    /\ a.hash = b.hash

\* C10: from_fen(to_fen(b)) succeeds and equals b on every field except
\* position_history.
C10_FenRoundTrip ==
    LET read == from_fen(to_fen(board))
    IN  /\ read.ok
        /\ SameButHistory(read.val, board)

\* C10 witness: a board after a move, with an en-passant square and some
\* but not all castling rights
C10_Witness ==
    /\ Moved
    /\ board.ep_square # None
    /\ board.castling_rights \notin {0, 15}

(***************************************************************************)
(* Claims about the search                                                 *)
(***************************************************************************)
\* C11: whenever search returns on a board that has a legal move,
\* best_move is present and is one of generate_legal_moves(board), whatever
\* max_depth and time budget it was given
C11_ReturnsLegalMove ==
    result # None =>
        LET moves == generate_legal_moves(board)
        IN  moves # <<>> =>
                /\ result[1].best_move # None
                /\ result[1].best_move[1] \in Elems(moves)

\* C12: whenever search returns on a board without legal moves, best_move
\* is None and score is -MATE_SCORE if the side to move is in check, 0 if
\* it is not
C12_TerminalRootResult ==
    result # None =>
        (generate_legal_moves(board) = <<>> =>
            /\ result[1].best_move = None
            /\ result[1].score = IF is_in_check(board, board.side_to_move)
                                 THEN -MATE_SCORE ELSE 0)

\* C13: no step that is taken with the stop flag set, or that sets it,
\* changes the transposition table
C13_NoStoreAfterStop == [][engine'.stop => tt' = tt]_vars

\* C14 as claimed: whenever search was cut short by the stop flag, the
\* best_move and score it returns are those recorded at the end of the last
\* iteration that ran to completion (none and 0 if there was none)
C14_ReturnsLastCompleted ==
    (result # None /\ hist.cut > 0) =>
        /\ result[1].best_move = hist.completed.best_move
        /\ result[1].score = hist.completed.score

\* C14 amended: whenever the stop flag cut an iteration of depth 2 or more
\* short, search returns what it recorded at the end of the last iteration
\* that ran to completion; when it cut the first iteration short, search
\* returns what that iteration had found if it had found a move, and no
\* move with score 0 if it had not
C14_ReturnsLastCompletedAfterFirst ==
    (result # None /\ hist.cut > 0) =>
        IF hist.cut > 1 \/ hist.partial.best_move = None
        THEN /\ result[1].best_move = hist.completed.best_move
             /\ result[1].score = hist.completed.score
        ELSE /\ result[1].best_move = hist.partial.best_move
             /\ result[1].score = hist.partial.score

\* C14 witness: search has returned after the stop flag cut short an
\* iteration of depth 2 or more that had found another move or score than
\* the iteration before it
C14_Witness ==
    /\ result # None
    /\ hist.cut > 1
    /\ hist.partial.best_move # None
    /\ hist.partial # hist.completed

\* C16: if the stop flag is set while a search runs, the search returns
C16_StopEndsSearch == (engine.stop /\ Searching) ~> ~Searching

\* C16 witness: the stop flag is set while two threads of a parallel root
\* search are inside pvs or about to begin
C16_Witness ==
    /\ engine.stop
    /\ Searching
    /\ \E c \in DOMAIN stack \ {0} : stack[c] # <<>> /\ Top(c).fn # "ret"

(***************************************************************************)
(* Claims about the transposition table                                    *)
(***************************************************************************)
\* the slot of hash h in table t holds an entry stored under h
SlotHolds(t, h) ==
    /\ tt_index(t, h) \in DOMAIN t.table
    /\ t.table[tt_index(t, h)].hash = h

\* C17: after any sequence of store, clear and resize, probe(h) returns an
\* entry exactly when the slot h mod size holds an entry whose hash is h,
\* and the entry of that slot; and after store(h, d, s, f, m) into an empty
\* slot or into a slot holding h, probe(h) returns depth d, score s, flag f
\* and move m
C17_ProbeContract ==
    (~tt_index_panics(tt)) =>
        /\ \A h \in TTHashes :
              /\ (probe(tt, h) # None) = SlotHolds(tt, h)
              /\ probe(tt, h) # None =>
                    /\ probe(tt, h)[1].hash = h
                    /\ probe(tt, h)[1] = tt.table[tt_index(tt, h)]
        /\ (/\ hist.op = "store"
            /\ \/ tt_index(tt, hist.hash) \notin DOMAIN hist.before.table
               \/ SlotHolds(hist.before, hist.hash))
           => /\ probe(tt, hist.hash) # None
              /\ LET e == probe(tt, hist.hash)[1]
                 IN  <<e.depth, e.score, e.flag, e.best_move>> = hist.payload

\* C17 witness: store has just replaced the entry of its own hash by
\* another one, in a slot that another hash of the model shares
C17_Witness ==
    /\ ~tt_index_panics(tt)
    /\ hist.op = "store"
    /\ SlotHolds(hist.before, hist.hash)
    /\ hist.before.table[tt_index(tt, hist.hash)] # tt.table[tt_index(tt, hist.hash)]
    /\ \E g \in TTHashes \ {hist.hash} : tt_index(tt, g) = tt_index(tt, hist.hash)

\* C18: a table made or resized with 0 MB has at least one slot, and no
\* probe or store on it crashes
C18_ZeroSizeTableUsable == tt.size # <<>> /\ ~panicked


\* C15: when a stop was written while go was searching, the stop flag is set
\* by the time go prints its best move, so that the search was cut short by
\* the stop and did not finish on its own.
C15_StopCutsGoShort ==
    (uci.pc = "read" /\ hist.command.op = "go" /\ uci.stop_arrived) => engine.stop

\* C19: after a position command the board is the one reached just before
\* the first move of the command that is not legal; none of the moves after
\* it is made.
C19_IllegalMoveEndsMoves ==
    hist.command.op = "position" => Some(board) = hist.command.expected

\* C20: after a position fen command whose FEN is invalid, from_fen has
\* reported an error and the board is the board held before the command.
C20_InvalidFenLeavesBoard ==
    (hist.command.op = "position" /\ hist.command.fen_given
        /\ ~hist.command.fen_valid)
    => (~hist.command.fen_ok /\ Some(board) = hist.command.before)

(***************************************************************************)
(* C21..C30                                                                *)
(***************************************************************************)
\* C21: in single-threaded mode two go commands with the same arguments on
\* the same position, with ucinewgame handled between them, answer with
\* the same best move
C21_SameSearchSameMove ==
    \A i \in 1..(Len(hist.handled) - 2) :
        LET first == hist.handled[i]
            between == hist.handled[i + 1]
            second == hist.handled[i + 2]
        IN  (/\ first.op = "go" /\ between.op = "ucinewgame" /\ second.op = "go"
             /\ first.threads = 1 /\ second.threads = 1
             /\ first.board = second.board
             /\ first.args = second.args)
            => first.best_move = second.best_move

\* C22: a search that returns a best move reports a node count greater
\* than zero
C22_NodesCounted ==
    (result # None /\ result[1].best_move # None) => result[1].nodes > 0

\* C23: when go is given wtime and btime and no movetime, the time budget
\* it passes to search is at least 200 ms and at most my_time less the
\* safety margin max(my_time / 10, 3000)
C23_TimeBudgetBounds ==
    LET g == go_args(uci.go_args, 1, GoDefaults)
        my_time == IF board.side_to_move = White THEN g.wtime[1] ELSE g.btime[1]
        safety_margin == BnMax(BnDivSmall(my_time, 10), BnFromInt(3000))
    IN  (uci.pc = "go" /\ g.time_ms = None /\ g.wtime # None /\ g.btime # None)
        => /\ clock.time_ms # None
           /\ BnCmp(clock.time_ms[1], BnFromInt(200)) >= 0
           /\ BnCmp(BnAdd(clock.time_ms[1], safety_margin), my_time) <= 0

\* C24: when `setoption name ClearHash` has been handled, probe finds no
\* entry for any hash the table held before the command
C24_ClearHashEmptiesTable ==
    \A i \in DOMAIN hist.handled :
        LET command == hist.handled[i]
        IN  (/\ i = Len(hist.handled)
             /\ uci.pc = "read"
             /\ command.op = "setoption"
             /\ command.args = <<KW_name, ClearHashName>>)
            => \A index \in DOMAIN command.before.table :
                   probe(tt, command.before.table[index].hash) = None

\* perft: the number of leaf nodes depth plies below b, each legal move of
\* generate_legal_moves followed with make_move
RECURSIVE perft(_, _), PerftSum(_, _, _)
perft(b, depth) ==
    IF depth = 0 THEN 1
    ELSE IF depth = 1 THEN Len(generate_legal_moves(b))
    ELSE PerftSum(b, generate_legal_moves(b), depth)

PerftSum(b, moves, depth) ==
    IF moves = <<>> THEN 0
    ELSE perft(make_move(b, Head(moves)), depth - 1) + PerftSum(b, Tail(moves), depth)

\* C25: from the standard starting position perft is 20 at depth 1, 400 at
\* depth 2 and 8,902 at depth 3
C25_PerftStart ==
    (lastMove = None /\ to_fen(board) = StartFen)
    => /\ perft(board, 1) = 20
       /\ perft(board, 2) = 400
       /\ perft(board, 3) = 8902

\* C25 witness: the starting position with two of its plies played, one of
\* the 400 leaves of depth 2
C25_Witness ==
    /\ lastMove # None
    /\ PieceCount(board) = 32
    /\ board.side_to_move = White
    /\ board.fullmove_number = 2

\* C26: current_age is incremented when search is called, so that every
\* entry an earlier search left in the table then has an age that differs
\* from current_age
C26_AgeAdvancesPerSearch ==
    [][(uci.pc = "read" /\ uci'.pc = "go")
       => /\ tt'.current_age = (tt.current_age + 1) % 256
          /\ \A index \in DOMAIN tt'.table :
                 tt'.table[index].age # tt'.current_age]_vars

\* C27: the board pvs searches after a null move has a hash field equal to
\* compute_hash of that board, whatever the ep_square of its parent
C27_NullMoveHash ==
    \A c \in DOMAIN stack :
        \A i \in 1..(Len(stack[c]) - 1) :
            (stack[c][i].pc = "null" /\ stack[c][i + 1].fn = "pvs")
            => /\ stack[c][i + 1].board = null_board(stack[c][i].board)
               /\ stack[c][i + 1].board.hash = compute_hash(stack[c][i + 1].board)

\* C28: every killer slot that holds a move holds one that is neither a
\* capture nor a promotion
C28_KillersAreQuiet ==
    \A t \in DOMAIN engine.thread_data :
        \A ply \in DOMAIN engine.thread_data[t].killer_moves :
            \A slot \in 1..2 :
                LET killer == engine.thread_data[t].killer_moves[ply][slot]
                IN  killer # None
                    => (~is_capture(killer[1]) /\ ~is_promotion(killer[1]))

(***************************************************************************)
(* Claims about the locks of the parallel root search                      *)
(***************************************************************************)
\* the thread c holds the table lock
HoldsTt(c) == TtReads(c) \/ TtWrites(c)

\* the thread c holds the mutex of some thread data
HoldsMutex(c) ==
    \E thread_id \in DOMAIN engine.thread_data : c \in MutexHolders(thread_id)

\* the thread c is at a lock() , read() or write() that does not return
\* because of what the thread d holds
WaitsOn(c, d) ==
    /\ c # d
    /\ ~panicked
    /\ stack[c] # <<>>
    /\ \/ /\ \/ Top(c).fn = "pvs" /\ Top(c).pc = "probe"
             \/ /\ Len(stack[c]) >= 2
                /\ Top(c).fn = "ret"
                /\ Under(c).fn = "pvs"
                /\ Under(c).pc = "iid"
          /\ TtWrites(d)
       \/ /\ PvsWrites(c)
          /\ TtWrites(d) \/ TtReads(d)
       \/ /\ Top(c).fn = "worker"
          /\ Top(c).pc = "begin"
          /\ ~engine.stop
          /\ d \in MutexHolders(Top(c).thread_id)

\* search_root is in its parallel search
Joining ==
    \E i \in DOMAIN stack[0] : stack[0][i].fn = "root" /\ stack[0][i].pc = "join"

\* the parallel search is over and has left no lock held
ParallelDone ==
    /\ ~Joining
    /\ \A c \in DOMAIN stack : ~HoldsTt(c) /\ ~HoldsMutex(c)

\* C30: the parallel root search cannot deadlock: no two threads wait on
\* locks the other holds, and search_root comes back from its parallel
\* search with every closure finished and every table lock and thread data
\* mutex released
C30_NoDeadlock ==
    /\ [](\A c \in DOMAIN stack : \A d \in DOMAIN stack :
              ~(WaitsOn(c, d) /\ WaitsOn(d, c)))
    /\ Joining ~> ParallelDone

\* C30 witness: two closures of the parallel search hold the mutexes of
\* their thread data, and one waits for the table lock the other holds
C30_Witness ==
    /\ Joining
    /\ \E c \in DOMAIN stack \ {0} : \E d \in DOMAIN stack \ {0} :
           /\ WaitsOn(c, d)
           /\ HoldsMutex(c)
           /\ HoldsMutex(d)
           /\ HoldsTt(d)

====
